---- MODULE Spec2Model ----
(***************************************************************************)
(* A state-machine model of ncdevmem (device-memory TCP netcat).           *)
(*                                                                         *)
(* main dispatches on is_server to do_server (the receive engine) or       *)
(* do_client (the transmit engine); client_dma_start is the second         *)
(* transmit loop of the repository.  The kernel, the NIC and the peer are  *)
(* the environment: every value they hand to the program is drawn from a   *)
(* small set.  error(1, ...) and ERR(...) end the process: pc "fatal".     *)
(***************************************************************************)
EXTENDS Integers, Sequences, FiniteSets, TLC

(***************************************************************************)
(* Bounds of the model.                                                    *)
(***************************************************************************)
\* mem->size, the byte length of the device buffer (and of the staging area)
MemSize == 2
\* cap on total_received: the peer's stream may be longer than the buffer
MaxTotal == 3
\* cap on the number of recvmsg calls do_server issues
MaxRecvCalls == 3
\* cap on the number of control messages one received message carries
MaxCmsgs == 2
\* cap on the number of bytes given on standard input
MaxInput == 3
\* cap on the number of sendmsg calls a transmit loop issues
MaxSends == 3
\* cap on the error-queue messages that are not completions
MaxNoise == 1
\* cap on the small payload sizes given to the segmentation alone
MaxSegLine == 20
\* cap on the chunk sizes given to the segmentation alone
MaxSegChunk == 3
\* most RX queues the device has
MaxRxq == 4
\* largest value given with -t or -q
MaxQueueArg == 2

(***************************************************************************)
(* Program constants.                                                      *)
(***************************************************************************)
MAX_IOV == 1024
PAGE_SIZE == 4096
CHUNK_SIZE == PAGE_SIZE
MAX_CHUNK_SIZE == CHUNK_SIZE * MAX_IOV

\* size_t endptr = -1
ENDPTR_UNSET == -1

\* ids the kernel may assign to a binding, and may stamp on a fragment
DmabufIds == {1, 2}

Min(a, b) == IF a < b THEN a ELSE b

VARIABLES
    \* ---- main ----
    role,               \* "server" (-l), "client" (do_client), "dma" (client_dma_start)
    exitStatus,         \* -1 while running, else the process exit status
    \* ---- do_server: control ----
    spc,                \* position in do_server
    sfatal,             \* which error(1, ...) ended do_server ("" if none)
    sret,               \* do_server's return value (-1: not returned)
    nicLog,             \* NIC steps issued so far, each with what it reported
    tearLog,            \* teardown steps issued so far
    \* ---- NIC / kernel control plane ----
    hsplit,             \* the ring's tcp-data-split setting (0 off, 1 auto, 2 on)
    hsObserved,         \* the value the last read-back printed (-1: none)
    ys,                 \* RX control-channel session: "none", "open", "destroyed"
    kRxId,              \* the id the kernel assigned to the RX binding (0: none)
    dmabuf_id,          \* static unsigned int dmabuf_id
    \* ---- do_server: sockets and staging ----
    socket_fd,          \* "none","created","reuse","bound","listening","closed"
    client_fd,          \* "none","open","bad","closed"
    tmp_mem,            \* "null", "alloc", "freed"
    backlog,            \* the backlog socket_fd listens with (0: not listening)
    staging,            \* contents of tmp_mem: index -> byte (0: never written)
    stagingOOB,         \* a copy wrote past the end of tmp_mem
    rxmem,              \* contents of the RX device buffer: offset -> byte
    \* ---- do_server: read loop ----
    recvCalls,          \* recvmsg calls on client_fd that returned data or end of stream
    recvRet,            \* "none","eagain","err","zero","pos"
    cmIdx,              \* control messages of the current message walked so far
    cur,                \* the control message being processed
    fragOps,            \* what has been done for the current DMABUF fragment
    devmemSeen,         \* socket-level DMABUF/LINEAR descriptors the kernel put in this message
    is_devmem,
    endptr,
    page_aligned_frags,
    non_page_aligned_frags,
    total_received,
    lastCopy,           \* arguments of the last hipMemcpy
    errors,             \* validate_buffer's static int errors
    validated,          \* validate_buffer calls so far: <<[seed, size]>>
    dontneedLog,        \* SO_DEVMEM_DONTNEED calls: <<[token_start, token_count, ret]>>
    doneTokens,         \* tokens of the fragments added to total_received
    nextToken           \* the kernel's next fragment token

(***************************************************************************)
(* The transmit side: do_client and client_dma_start.                      *)
(***************************************************************************)
VARIABLES
    \* ---- configuration (getopt) ----
    do_validation,      \* -v M (0: read lines from stdin)
    max_chunk,          \* -z C (0: one segment)
    \* ---- control ----
    cpc,                \* position in do_client / client_dma_start
    cfatal,             \* which error(1, ...) / ERR(...) ended it ("" if none)
    cret,               \* do_client's return value (-1: not returned)
    cexit,              \* -1 while running, else the process exit status
    \* ---- socket and TX binding ----
    csk,                \* the data socket
    tys,                \* TX control-channel session: "none", "open", "destroyed"
    kTxId,              \* the id the kernel assigned to the TX binding (0: none)
    tx_dmabuf_id,       \* static uint32_t tx_dmabuf_id
    \* ---- producer loop ----
    stdin0,             \* the bytes given on standard input
    stdin,              \* what is left of them
    line,               \* the payload of this iteration
    line_size,
    total_sended,
    txmem,              \* contents of the TX device buffer: offset -> byte
    h2dCopies,          \* host-to-device copies into the buffer so far
    iov,                \* msg.msg_iov[0 .. msg_iovlen-1]: <<[base, len]>>
    iovOOB,             \* an entry outside iov[0 .. MAX_IOV-1] was written
    sentCmsgs,          \* the control messages of the last sendmsg: dmabuf ids
    sendRet,            \* what the last sendmsg returned
    sendsIssued,        \* sendmsg calls issued
    \* ---- zero-copy completions ----
    zcSeq,              \* the kernel's zero-copy send counter
    zcPending,          \* zero-copy sends not yet notified: their numbers
    errq,               \* the socket's error queue
    noise,              \* error-queue messages other than completions so far
    complSeen,          \* completions wait_compl has returned on
    lastCompl,          \* [lo, hi] of the last of them
    \* ---- client_dma_start ----
    buffer_size,
    total,
    writesize

\* ---- main's queue options and run_devmem_tests ----
VARIABLES
    rxq,                \* RX queues the device has (rx_count + combined_count)
    start_queue,        \* -t (-1: not given)
    num_queues,         \* -q (-1: not given)
    test_mem,           \* run_devmem_tests' struct memory_buffer *mem
    bindFd,             \* the dmabuf_fd argument of the last bind_rx_queue ("none" before)
    kBoundQueues,       \* queue indices held by the RX binding in the kernel
    chanReq             \* arguments of the last configure_channels (<<>>: none)

\* ---- main ----
VARIABLES
    mpc,                \* position in main ("called": do_server, do_client or the self-test runs)
    mfatal,             \* which error(1, ...) ended main ("" if none)
    opts,               \* the command line: f ("none", "bad", "ok"), l, s, c, p (given or not)
    ifindex,            \* if_nametoindex(ifname): 0 when no interface has the name
    ioLog,              \* netlink requests and device-memory calls main has made
    main_mem            \* main's struct memory_buffer mem: buf and fd

(***************************************************************************)
(* socket.c: one process-wide socket behind socket_create, socket_connect  *)
(* and socket_accept.                                                      *)
(***************************************************************************)
VARIABLES
    xpc,                \* position of the process in socket.c ("idle": in the caller)
    address,            \* socket_create's argument address
    is_server,          \* socket_create's argument is_server
    sockaddr,           \* static struct sockaddr_in sockaddr ("zero": never filled)
    sockfd,             \* int sockfd: "zero", "open", "bad"
    sockLog,            \* the calls socket.c has made: <<[call, arg, ret]>>
    apiCalls             \* calls of socket_create so far

\* ---- the connection ----
VARIABLES
    wire,               \* bytes the sender's kernel took and the receiver has not read
    msgData             \* payload of the message recvmsg returned, not yet described

cCtl == <<cpc, cfatal, cret, cexit>>
cCfg == <<do_validation, max_chunk, stdin0>>
cSock == <<csk, tys, kTxId, tx_dmabuf_id>>
cData == <<stdin, line, line_size, total_sended, txmem, h2dCopies, iov, iovOOB>>
cSend == <<sentCmsgs, sendRet, sendsIssued>>
cZc == <<zcSeq, zcPending, errq, noise, complSeen, lastCompl>>
dVars == <<buffer_size, total, writesize>>

clientVars == <<cCtl, cCfg, cSock, cData, cSend, cZc, dVars>>

netVars == <<wire, msgData>>

testVars == <<rxq, start_queue, num_queues, test_mem, bindFd, kBoundQueues, chanReq>>

sCtl == <<spc, sfatal, sret, exitStatus>>
nicVars == <<hsplit, hsObserved, ys, kRxId, dmabuf_id>>
sockVars == <<socket_fd, client_fd, tmp_mem, backlog>>
memVars == <<staging, stagingOOB, rxmem, lastCopy, errors, validated>>
loopVars == <<recvCalls, recvRet, cmIdx, cur, fragOps, devmemSeen, is_devmem>>
acctVars == <<endptr, page_aligned_frags, non_page_aligned_frags, total_received>>
tokVars == <<dontneedLog, doneTokens, nextToken>>
sLogs == <<nicLog, tearLog>>

serverVars == <<sCtl, nicVars, sockVars, memVars, loopVars, acctVars, tokVars, sLogs>>

mainVars == <<mpc, mfatal, opts, ifindex, ioLog, main_mem>>

libVars == <<xpc, address, is_server, sockaddr, sockfd, sockLog, apiCalls>>

vars == <<role, serverVars, clientVars, netVars, testVars, mainVars, libVars>>


(***************************************************************************)
(* Helpers of do_server.                                                   *)
(***************************************************************************)
\* do_server is at position p (the role never changes)
AtServerNet(p) ==
    /\ role \in {"server", "pair"}
    /\ role' = role
    /\ spc = p
    /\ UNCHANGED <<clientVars, testVars, mainVars, libVars>>

\* ... and the step leaves the connection alone
AtServer(p) == AtServerNet(p) /\ UNCHANGED netVars

\* error(1, ...): the process exits with status 1
SFatal(reason) ==
    /\ spc' = "fatal"
    /\ sfatal' = reason
    /\ exitStatus' = 1
    /\ UNCHANGED sret

SGoto(p) ==
    /\ spc' = p
    /\ UNCHANGED <<sfatal, sret, exitStatus>>

\* the RX binding lives as long as its session is open and the process runs
RxBindingActive == ys = "open" /\ exitStatus = -1

\* mutant: the return value is never looked at
FailedNever(ret) == FALSE

\* "if (f(...)) error(1, ...)": a non-zero return is a failure
Failed(ret) == ret # 0

NicOps == <<"reset_flow_steering", "configure_headersplit", "configure_rss",
            "configure_flow_steering", "sleep", "bind_rx_queue">>

\* exit statuses system() may report for an ethtool command
CmdStatuses == {0, 1}

(***************************************************************************)
(* configure_headersplit(on): what it returns and what it leaves behind.   *)
(* out: "sock_fail" (ynl_sock_create failed), "set_fail" (rings_set < 0),  *)
(* "set_ok" (rings_set returned 0).  applied: the device took the value.   *)
(* readback: ethtool_rings_get answered.                                   *)
(***************************************************************************)
HeadersplitOutcomes == {"sock_fail", "set_fail", "set_ok"}

HeadersplitRet(out) == IF out = "set_ok" THEN 0 ELSE -1

configure_headersplit(on, out, applied, readback) ==
    /\ hsplit' = IF out = "set_ok" /\ applied
                 THEN (IF on THEN 2 ELSE 0)
                 ELSE hsplit
    /\ hsObserved' = IF out = "set_ok" /\ readback THEN hsplit' ELSE hsObserved

\* the kernel refuses to bind RX queues while header split is off
KernelBindRxAllowed(split) == split = 2

(***************************************************************************)
(* do_server: NIC sequence (lines 463-484).                                *)
(***************************************************************************)
s_parse_address ==
    /\ AtServer("parse")
    /\ \E ret \in {0, -1} :
          IF ret < 0 THEN SFatal("parse server address") ELSE SGoto("reset")
    /\ UNCHANGED <<nicVars, sockVars, memVars, loopVars, acctVars, tokVars, sLogs>>

\* the three ethtool commands' exit statuses are ignored: always returns 0
reset_flow_steering_ret == 0

s_reset_flow_steering ==
    /\ AtServer("reset")
    /\ nicLog' = Append(nicLog, [op |-> "reset_flow_steering", arg |-> "",
                                 ret |-> reset_flow_steering_ret])
    /\ IF Failed(reset_flow_steering_ret)
       THEN SFatal("Failed to reset flow steering")
       ELSE SGoto("headersplit")
    /\ UNCHANGED <<nicVars, sockVars, memVars, loopVars, acctVars, tokVars, tearLog>>

s_configure_headersplit ==
    /\ AtServer("headersplit")
    /\ \E out \in HeadersplitOutcomes, applied \in BOOLEAN, readback \in BOOLEAN :
          /\ (out # "set_ok") => (applied /\ readback)
          /\ configure_headersplit(TRUE, out, applied, readback)
          /\ nicLog' = Append(nicLog, [op |-> "configure_headersplit", arg |-> "on",
                                       ret |-> HeadersplitRet(out)])
          /\ IF Failed(HeadersplitRet(out))
             THEN SFatal("Failed to enable TCP header split")
             ELSE SGoto("rss")
    /\ UNCHANGED <<ys, kRxId, dmabuf_id, sockVars, memVars, loopVars, acctVars,
                   tokVars, tearLog>>

s_configure_rss ==
    /\ AtServer("rss")
    /\ \E ret \in CmdStatuses :
          /\ nicLog' = Append(nicLog, [op |-> "configure_rss", arg |-> "", ret |-> ret])
          /\ IF Failed(ret) THEN SFatal("Failed to configure rss") ELSE SGoto("flow")
    /\ UNCHANGED <<nicVars, sockVars, memVars, loopVars, acctVars, tokVars, tearLog>>

\* 5-tuple rule first; if that fails the 3-tuple rule; -1 if both fail
configure_flow_steering_ret(s5, s3) == IF s5 # 0 /\ s3 # 0 THEN -1 ELSE 0

s_configure_flow_steering ==
    /\ AtServer("flow")
    /\ \E s5 \in CmdStatuses, s3 \in CmdStatuses :
          LET ret == configure_flow_steering_ret(s5, s3) IN
          /\ nicLog' = Append(nicLog, [op |-> "configure_flow_steering", arg |-> "",
                                       ret |-> ret])
          /\ IF Failed(ret)
             THEN SFatal("Failed to configure flow steering")
             ELSE SGoto("sleep")
    /\ UNCHANGED <<nicVars, sockVars, memVars, loopVars, acctVars, tokVars, tearLog>>

s_sleep ==
    /\ AtServer("sleep")
    /\ nicLog' = Append(nicLog, [op |-> "sleep", arg |-> "", ret |-> 0])
    /\ SGoto("bind")
    /\ UNCHANGED <<nicVars, sockVars, memVars, loopVars, acctVars, tokVars, tearLog>>

(***************************************************************************)
(* bind_rx_queue (lines 302-345).  out: "sock_fail" (ynl_sock_create       *)
(* failed, *ys is NULL), "no_rsp" (netdev_bind_rx returned NULL), "no_id"  *)
(* (the response has no id), "ok".  On err_close the session is destroyed  *)
(* and dmabuf_id is left alone.                                            *)
(***************************************************************************)
BindOutcomes == {"sock_fail", "no_rsp", "no_id", "ok"}

BindRet(out) == IF out = "ok" THEN 0 ELSE -1

\* mutant: the success path falls through to err_close
bind_rx_queue_fallthrough(out, id) ==
    /\ (out = "ok") => KernelBindRxAllowed(hsplit)
    /\ ys' = IF out = "sock_fail" THEN "none" ELSE "destroyed"
    /\ kRxId' = IF out = "ok" THEN id ELSE kRxId
    /\ dmabuf_id' = IF out = "ok" THEN id ELSE dmabuf_id

\* mutant: the error path returns without destroying the session
bind_rx_queue_leak(out, id) ==
    /\ (out = "ok") => KernelBindRxAllowed(hsplit)
    /\ ys' = IF out = "sock_fail" THEN "none" ELSE "open"
    /\ kRxId' = IF out = "ok" THEN id ELSE kRxId
    /\ dmabuf_id' = IF out = "ok" THEN id ELSE dmabuf_id

bind_rx_queue(out, id) ==
    /\ (out = "ok") => KernelBindRxAllowed(hsplit)
    /\ ys' = CASE out = "sock_fail" -> "none"
               [] out = "ok" -> "open"
               [] OTHER -> "destroyed"
    /\ kRxId' = IF out = "ok" THEN id ELSE kRxId
    /\ dmabuf_id' = IF out = "ok" THEN id ELSE dmabuf_id

s_bind_rx_queue ==
    /\ AtServer("bind")
    /\ \E out \in BindOutcomes, id \in DmabufIds :
          /\ bind_rx_queue(out, id)
          /\ nicLog' = Append(nicLog, [op |-> "bind_rx_queue", arg |-> "",
                                       ret |-> BindRet(out)])
          /\ IF Failed(BindRet(out)) THEN SFatal("Failed to bind") ELSE SGoto("malloc")
    /\ UNCHANGED <<hsplit, hsObserved, sockVars, memVars, loopVars, acctVars,
                   tokVars, tearLog>>


(***************************************************************************)
(* do_server: staging and the listening socket (lines 486-518).            *)
(***************************************************************************)
s_malloc ==
    /\ AtServer("malloc")
    /\ \E ok \in BOOLEAN :
          IF ok
          THEN /\ tmp_mem' = "alloc"
               /\ SGoto("socket")
          ELSE /\ tmp_mem' = "null"
               /\ SFatal("malloc failed")
    /\ UNCHANGED <<nicVars, socket_fd, client_fd, backlog, memVars, loopVars, acctVars,
                   tokVars, sLogs>>

\* one step of socket(), enable_reuseaddr(), bind(), listen(): each failure is fatal
SockStep(from, to, next, msg) ==
    /\ AtServer(from)
    /\ \E ok \in BOOLEAN :
          IF ok
          THEN /\ socket_fd' = to
               /\ SGoto(next)
          ELSE /\ socket_fd' = socket_fd
               /\ SFatal(msg)
    /\ UNCHANGED <<nicVars, client_fd, tmp_mem, backlog, memVars, loopVars, acctVars,
                   tokVars, sLogs>>

s_socket == SockStep("socket", "created", "reuseaddr", "create socket")

s_enable_reuseaddr == SockStep("reuseaddr", "reuse", "sockbind", "SO_REUSEPORT/SO_REUSEADDR")

s_bind == SockStep("sockbind", "bound", "listen", "bind")

\* ret = listen(socket_fd, 1); if (ret) error(1, ...)
s_listen ==
    /\ AtServer("listen")
    /\ \E ok \in BOOLEAN :
          IF ok
          THEN /\ socket_fd' = "listening"
               /\ backlog' = 1
               /\ SGoto("accept")
          ELSE /\ UNCHANGED <<socket_fd, backlog>>
               /\ SFatal("listen")
    /\ UNCHANGED <<nicVars, client_fd, tmp_mem, memVars, loopVars, acctVars,
                   tokVars, sLogs>>

\* accept's return value is not checked: client_fd may be -1
s_accept ==
    /\ AtServer("accept")
    /\ \E ok \in BOOLEAN : client_fd' = IF ok THEN "open" ELSE "bad"
    /\ SGoto("recv")
    /\ UNCHANGED <<nicVars, socket_fd, tmp_mem, backlog, memVars, loopVars, acctVars,
                   tokVars, sLogs>>

(***************************************************************************)
(* do_server: the read loop (lines 520-629).                               *)
(***************************************************************************)
\* what recvmsg may return on client_fd
RecvOutcomes == IF client_fd = "bad" THEN {"err"} ELSE {"eagain", "err", "zero", "pos"}

\* mutant: is_devmem is cleared once, before the loop
IsDevmemKept == is_devmem

\* is_devmem = false at the top of every iteration (line 529)
IsDevmemAtRecv == FALSE

\* mutant: a return of zero is not told apart from data
AfterRecvZeroAsData(out) ==
    CASE out = "eagain" -> "retry"
      [] out = "err" -> "retry"
      [] out = "zero" -> "cmsg"
      [] out = "pos" -> "cmsg"

\* where the loop goes after recvmsg returned (lines 537-547)
AfterRecv(out) ==
    CASE out = "eagain" -> "retry"
      [] out = "err" -> "retry"
      [] out = "zero" -> "free"
      [] out = "pos" -> "cmsg"

\* a receive that returned a negative value
Negative(out) == out \in {"eagain", "err"}

recvmsg(out) ==
    /\ AtServerNet("recv")
    /\ (~Negative(out)) => (recvCalls < MaxRecvCalls)
    /\ is_devmem' = IsDevmemAtRecv
    /\ recvCalls' = IF Negative(out) THEN recvCalls ELSE recvCalls + 1
    /\ recvRet' = out
    /\ cmIdx' = 0
    /\ devmemSeen' = 0
    /\ SGoto(AfterRecv(out))
    /\ UNCHANGED <<cur, fragOps>>

s_recvmsg ==
    /\ role = "server"
    /\ \E out \in RecvOutcomes : recvmsg(out)
    /\ UNCHANGED <<netVars, nicVars, sockVars, memVars, acctVars, tokVars, sLogs>>

\* lines 537-542: "continue" after a negative return, back to the loop's top
s_continue ==
    /\ AtServer("retry")
    /\ SGoto("recv")
    /\ UNCHANGED <<nicVars, sockVars, memVars, loopVars, acctVars, tokVars, sLogs>>

\* no control message: CMSG_FIRSTHDR / CMSG_NXTHDR returned NULL
NoCmsg == [level |-> "none", type |-> "none", dmabuf_id |-> 0,
           frag_offset |-> 0, frag_size |-> 0, frag_token |-> 0]

\* the fragments the kernel may place in the device buffer
FragPlaces == {<<off, sz>> \in (0 .. MemSize - 1) \X (1 .. MemSize) : off + sz <= MemSize}

\* the control messages the kernel may attach to a message
CmsgChoices ==
    {[level |-> "other", type |-> "DMABUF", dmabuf_id |-> kRxId,
      frag_offset |-> 0, frag_size |-> 1, frag_token |-> 0],
     [level |-> "SOL_SOCKET", type |-> "other", dmabuf_id |-> 0,
      frag_offset |-> 0, frag_size |-> 0, frag_token |-> 0],
     [level |-> "SOL_SOCKET", type |-> "LINEAR", dmabuf_id |-> 0,
      frag_offset |-> 0, frag_size |-> 1, frag_token |-> 0]}
    \cup
    {[level |-> "SOL_SOCKET", type |-> "DMABUF", dmabuf_id |-> kRxId,
      frag_offset |-> pl[1], frag_size |-> pl[2], frag_token |-> nextToken] :
        pl \in {q \in FragPlaces : total_received + q[2] <= MaxTotal}}
    \cup
    {[level |-> "SOL_SOCKET", type |-> "DMABUF", dmabuf_id |-> id,
      frag_offset |-> 0, frag_size |-> 1, frag_token |-> nextToken] :
        id \in {i \in DmabufIds \ {kRxId} : total_received + 1 <= MaxTotal}}

\* lines 550-552: a control message that is not a socket-level devmem one is skipped
IsDevmemCmsg(cm) ==
    cm.level = "SOL_SOCKET" /\ (cm.type = "DMABUF" \/ cm.type = "LINEAR")

\* the for loop's head and the classification of the control message (549-569)
cmsg_next(cm) ==
    /\ AtServerNet("cmsg")
    /\ IF cm = NoCmsg
       THEN /\ SGoto("devmem_check")
            /\ fragOps' = {}
            /\ UNCHANGED <<cmIdx, cur, devmemSeen, is_devmem>>
       ELSE /\ cmIdx < MaxCmsgs
            /\ cmIdx' = cmIdx + 1
            /\ devmemSeen' = IF cm.level = "SOL_SOCKET" /\ cm.type \in {"DMABUF", "LINEAR"}
                              THEN devmemSeen + 1 ELSE devmemSeen
            /\ cur' = cm
            /\ fragOps' = {}
            /\ IF ~IsDevmemCmsg(cm)
               THEN /\ UNCHANGED is_devmem
                    /\ SGoto("cmsg")
               ELSE /\ is_devmem' = TRUE
                    /\ IF cm.type = "LINEAR" THEN SGoto("cmsg") ELSE SGoto("idcheck")
    /\ UNCHANGED <<recvCalls, recvRet>>

s_cmsg ==
    /\ role = "server"
    /\ \E cm \in CmsgChoices \cup {NoCmsg} :
          /\ cmsg_next(cm)
          /\ nextToken' = IF cm.type = "DMABUF" /\ cm.level = "SOL_SOCKET"
                          THEN nextToken + 1 ELSE nextToken
    /\ UNCHANGED <<netVars, nicVars, sockVars, memVars, acctVars, dontneedLog,
                   doneTokens, sLogs>>

\* mutant: the id is not compared
IdMatchesAlways(cm) == TRUE

\* line 571
IdMatches(cm) == cm.dmabuf_id = dmabuf_id

s_idcheck ==
    /\ AtServer("idcheck")
    /\ IF ~IdMatches(cur)
       THEN SFatal("received on wrong dmabuf_id: flow steering error")
       ELSE SGoto("account")
    /\ UNCHANGED <<nicVars, sockVars, memVars, loopVars, acctVars, tokVars, sLogs>>

\* mutant: the token is handed back before the fragment is copied out
AfterAccountRelease == "release"

\* the copy follows the accounting and precedes the release (lines 586-605)
AfterAccount == "copy"

\* lines 575-586
s_account ==
    /\ AtServer("account")
    /\ IF endptr = ENDPTR_UNSET
       THEN /\ endptr' = cur.frag_offset + cur.frag_size
            /\ UNCHANGED <<page_aligned_frags, non_page_aligned_frags>>
       ELSE IF endptr = cur.frag_offset
            THEN /\ page_aligned_frags' = page_aligned_frags + 1
                 /\ endptr' = endptr + cur.frag_size
                 /\ UNCHANGED non_page_aligned_frags
            ELSE /\ non_page_aligned_frags' = non_page_aligned_frags + 1
                 /\ endptr' = cur.frag_offset + cur.frag_size
                 /\ UNCHANGED page_aligned_frags
    /\ fragOps' = fragOps \cup {"count"}
    /\ SGoto(AfterAccount)
    /\ UNCHANGED <<nicVars, sockVars, memVars, recvCalls, recvRet, cmIdx, cur,
                   devmemSeen, is_devmem, total_received, tokVars, sLogs>>

\* hipMemcpy(tmp_mem + dst, mem->buf_mem + src, len): tmp_mem afterwards
CopyInto(stg, dst, src, len) ==
    [i \in DOMAIN stg |->
        IF i >= dst /\ i < dst + len THEN rxmem[src + (i - dst)] ELSE stg[i]]

\* lines 588-593.  tmp_mem holds mem->size bytes: a copy that runs past its
\* end is undefined behaviour; the process dies on it or runs on.
s_copy ==
    /\ AtServer("copy")
    /\ lastCopy' = [dst |-> total_received, src |-> cur.frag_offset,
                    len |-> cur.frag_size]
    /\ staging' = CopyInto(staging, total_received, cur.frag_offset, cur.frag_size)
    /\ fragOps' = fragOps \cup {"copy"}
    /\ IF total_received + cur.frag_size > MemSize
       THEN /\ stagingOOB' = TRUE
            /\ \E dies \in BOOLEAN :
                  IF dies
                  THEN /\ spc' = "crashed"
                       /\ exitStatus' = 139
                       /\ UNCHANGED <<sfatal, sret>>
                  ELSE SGoto("release")
       ELSE /\ UNCHANGED stagingOOB
            /\ SGoto("release")
    \* lines 595-603: the validate_buffer / print_nonzero_bytes block is a comment
    /\ UNCHANGED <<errors, validated>>
    /\ UNCHANGED <<nicVars, sockVars, rxmem, recvCalls, recvRet, cmIdx, cur,
                   devmemSeen, is_devmem, acctVars, tokVars, sLogs>>

\* token.token_count = 1 (line 606)
TokenCount == 1

\* what setsockopt(SO_DEVMEM_DONTNEED) may return
DontneedRets == {-1, 0, 1}

\* mutant: success is a return of zero, as for an ordinary setsockopt
ReleaseOkZero(ret) == ret = 0

\* line 610: "if (ret != 1) error(...)"
ReleaseOk(ret) == ret = 1

\* lines 605-612
s_release ==
    /\ AtServer("release")
    /\ \E ret \in DontneedRets :
          /\ dontneedLog' = Append(dontneedLog,
                 [token_start |-> cur.frag_token, token_count |-> TokenCount,
                  ret |-> ret])
          /\ IF ReleaseOk(ret)
             THEN SGoto("add")
             ELSE SFatal("SO_DEVMEM_DONTNEED not enough tokens")
    /\ fragOps' = fragOps \cup {"release"}
    /\ UNCHANGED <<nicVars, sockVars, memVars, recvCalls, recvRet, cmIdx, cur,
                   devmemSeen, is_devmem, acctVars, doneTokens, nextToken, sLogs>>

\* line 614
s_add ==
    /\ AtServer("add")
    /\ total_received' = total_received + cur.frag_size
    /\ doneTokens' = doneTokens \cup {cur.frag_token}
    /\ fragOps' = fragOps \cup {"add"}
    /\ SGoto("cmsg")
    /\ UNCHANGED <<nicVars, sockVars, memVars, recvCalls, recvRet, cmIdx, cur,
                   devmemSeen, is_devmem, endptr, page_aligned_frags, non_page_aligned_frags,
                   dontneedLog, nextToken, sLogs>>

\* lines 625-626
s_devmem_check ==
    /\ AtServer("devmem_check")
    /\ IF ~is_devmem THEN SFatal("flow steering error") ELSE SGoto("recv")
    /\ UNCHANGED <<nicVars, sockVars, memVars, loopVars, acctVars, tokVars, sLogs>>

(***************************************************************************)
(* do_server: teardown (lines 631-643).                                    *)
(***************************************************************************)
s_free ==
    /\ AtServer("free")
    /\ tmp_mem' = "freed"
    /\ tearLog' = Append(tearLog, "free")
    /\ SGoto("close_client")
    /\ UNCHANGED <<nicVars, socket_fd, client_fd, backlog, memVars, loopVars, acctVars,
                   tokVars, nicLog>>

s_close_client ==
    /\ AtServer("close_client")
    /\ client_fd' = "closed"
    /\ tearLog' = Append(tearLog, "close_client")
    /\ SGoto("close_listen")
    /\ UNCHANGED <<nicVars, socket_fd, tmp_mem, backlog, memVars, loopVars, acctVars,
                   tokVars, nicLog>>

s_close_listen ==
    /\ AtServer("close_listen")
    /\ socket_fd' = "closed"
    /\ tearLog' = Append(tearLog, "close_listen")
    /\ SGoto("destroy")
    /\ UNCHANGED <<nicVars, client_fd, tmp_mem, backlog, memVars, loopVars, acctVars,
                   tokVars, nicLog>>

\* ynl_sock_destroy(ys); return 0;
s_destroy ==
    /\ AtServer("destroy")
    /\ ys' = "destroyed"
    /\ tearLog' = Append(tearLog, "ynl_sock_destroy")
    /\ spc' = "done"
    /\ sret' = 0
    /\ exitStatus' = 0
    /\ UNCHANGED <<sfatal, hsplit, hsObserved, kRxId, dmabuf_id, sockVars, memVars,
                   loopVars, acctVars, tokVars, nicLog>>

do_server ==
    \/ s_parse_address \/ s_reset_flow_steering \/ s_configure_headersplit
    \/ s_configure_rss \/ s_configure_flow_steering \/ s_sleep \/ s_bind_rx_queue
    \/ s_malloc \/ s_socket \/ s_enable_reuseaddr \/ s_bind \/ s_listen \/ s_accept
    \/ s_recvmsg \/ s_continue \/ s_cmsg \/ s_idcheck \/ s_account \/ s_copy \/ s_release
    \/ s_add \/ s_devmem_check
    \/ s_free \/ s_close_client \/ s_close_listen \/ s_destroy

(***************************************************************************)
(* Helpers of the transmit side.                                           *)
(***************************************************************************)
TxRoles == {"client", "pair", "dma"}

AtTxNet(roles, p) ==
    /\ role \in roles
    /\ role' = role
    /\ cpc = p
    /\ UNCHANGED <<serverVars, testVars, mainVars, libVars>>

AtTx(roles, p) == AtTxNet(roles, p) /\ UNCHANGED netVars

\* do_client is at position p
AtClient(p) == AtTx({"client", "pair"}, p)

\* client_dma_start is at position p
AtDma(p) == AtTx({"dma"}, p)

\* error(1, ...) / ERR(...): the process exits with a non-zero status
CFatal(reason) ==
    /\ cpc' = "fatal"
    /\ cfatal' = reason
    /\ cexit' = 1
    /\ UNCHANGED cret

CGoto(p) ==
    /\ cpc' = p
    /\ UNCHANGED <<cfatal, cret, cexit>>

\* bytes of a payload; NL ends a line
NL == 10

\* the inputs of n bytes: byte i is a newline or the data byte i
RECURSIVE InputsOfLen(_)
InputsOfLen(n) ==
    IF n = 0 THEN {<<>>}
    ELSE {Append(q, b) : q \in InputsOfLen(n - 1), b \in {NL, n}}

Inputs == UNION {InputsOfLen(n) : n \in 0 .. MaxInput}

\* getline: the next line of the input, its newline included
RECURSIVE LineLen(_)
LineLen(inp) ==
    IF inp = <<>> THEN 0
    ELSE IF Head(inp) = NL THEN 1
    ELSE 1 + LineLen(Tail(inp))

\* line[i] = i % do_validation (lines 822-824)
ValidationLine(size, m) == [i \in 1 .. size |-> (i - 1) % m]

(***************************************************************************)
(* Segmentation of a payload (lines 842-860 and 1195-1200).                *)
(***************************************************************************)
\* the quotient rounded down
IovCountFloor(ls, c) == IF c > 0 THEN ls \div c ELSE 1

\* msg.msg_iovlen = (line_size + max_chunk - 1) / max_chunk
IovCount(ls, c) == IF c > 0 THEN (ls + c - 1) \div c ELSE 1

\* iov[i].iov_base = i * max_chunk, iov_len = max_chunk, the last one trimmed;
\* with max_chunk = 0 one segment at offset 0
Iov(ls, c) ==
    IF c > 0
    THEN [i \in 1 .. IovCount(ls, c) |->
             [base |-> (i - 1) * c,
              len |-> IF i = IovCount(ls, c) THEN ls - (IovCount(ls, c) - 1) * c ELSE c]]
    ELSE <<[base |-> 0, len |-> ls]>>

\* iovec[i].iov_base = total + i * CHUNK_SIZE (lines 1195-1200)
DmaIov(tot, ws) ==
    LET n == (ws + CHUNK_SIZE - 1) \div CHUNK_SIZE IN
    [i \in 1 .. n |->
        [base |-> tot + (i - 1) * CHUNK_SIZE,
         len |-> IF i = n THEN ws - (n - 1) * CHUNK_SIZE ELSE CHUNK_SIZE]]

RECURSIVE IovLenRange(_, _, _)
\* the bytes segments a .. b name
IovLenRange(v, a, b) ==
    IF a > b THEN 0
    ELSE IF a = b THEN v[a].len
    ELSE IovLenRange(v, a, (a + b) \div 2) + IovLenRange(v, (a + b) \div 2 + 1, b)

\* the bytes the first k segments name
IovLen(v, k) == IovLenRange(v, 1, k)

RECURSIVE IovBytes(_, _, _)
\* the bytes the kernel reads from the device buffer for the first k segments
IovBytes(mem, v, k) ==
    IF k = 0 THEN <<>>
    ELSE IovBytes(mem, v, k - 1) \o [j \in 1 .. v[k].len |-> mem[v[k].base + j - 1]]

(***************************************************************************)
(* do_client: socket and TX binding (lines 782-819).                       *)
(***************************************************************************)
c_parse_address ==
    /\ AtClient("parse")
    /\ \E ret \in {0, -1} :
          IF ret < 0 THEN CFatal("parse server address") ELSE CGoto("socket")
    /\ UNCHANGED <<cCfg, cSock, cData, cSend, cZc, dVars>>

\* one socket call of do_client that is fatal when it fails
CSockStep(from, field, next, msg) ==
    /\ AtClient(from)
    /\ \E ret \in {0, -1} :
          IF Failed(ret)
          THEN /\ csk' = csk
               /\ CFatal(msg)
          ELSE /\ csk' = [csk EXCEPT ![field] = TRUE]
               /\ CGoto(next)
    /\ UNCHANGED <<cCfg, tys, kTxId, tx_dmabuf_id, cData, cSend, cZc, dVars>>

c_socket == CSockStep("socket", "open", "reuseaddr", "create socket")

c_enable_reuseaddr == CSockStep("reuseaddr", "reuse", "bindtodevice", "SO_REUSEPORT/SO_REUSEADDR")

c_bindtodevice == CSockStep("bindtodevice", "todevice", "bind_tx", "bindtodevice")

\* bind_tx_queue (lines 347-388): as bind_rx_queue, for tx_dmabuf_id
bind_tx_queue(out, id) ==
    /\ tys' = CASE out = "sock_fail" -> "none"
                [] out = "ok" -> "open"
                [] OTHER -> "destroyed"
    /\ kTxId' = IF out = "ok" THEN id ELSE kTxId
    /\ tx_dmabuf_id' = IF out = "ok" THEN id ELSE tx_dmabuf_id

\* the id the kernel gives the TX binding
TxDmabufIds == {2}

c_bind_tx_queue ==
    /\ AtClient("bind_tx")
    /\ \E out \in BindOutcomes, id \in TxDmabufIds :
          /\ bind_tx_queue(out, id)
          /\ IF Failed(BindRet(out)) THEN CFatal("Failed to bind") ELSE CGoto("bind_local")
    /\ UNCHANGED <<cCfg, csk, cData, cSend, cZc, dVars>>

\* lines 800-808: with -c, bind the socket to the client address
c_bind_local ==
    /\ AtClient("bind_local")
    /\ \E has_client_ip \in BOOLEAN, parsed \in {0, -1}, ret \in {0, -1} :
          IF ~has_client_ip
          THEN /\ csk' = csk
               /\ CGoto("zerocopy")
          ELSE IF parsed < 0
          THEN /\ csk' = csk
               /\ CFatal("parse client address")
          ELSE IF Failed(ret)
          THEN /\ csk' = csk
               /\ CFatal("bind")
          ELSE /\ csk' = [csk EXCEPT !.bound = TRUE]
               /\ CGoto("zerocopy")
    /\ UNCHANGED <<cCfg, tys, kTxId, tx_dmabuf_id, cData, cSend, cZc, dVars>>

c_zerocopy == CSockStep("zerocopy", "zerocopy", "connect", "set sock opt")

c_connect == CSockStep("connect", "connected", "prepare", "connect")

(***************************************************************************)
(* do_client: the producer loop (lines 821-888).                           *)
(***************************************************************************)
c_prepare ==
    /\ AtClient("prepare")
    /\ IF do_validation # 0
       THEN /\ line' = ValidationLine(MemSize, do_validation)
            /\ line_size' = MAX_IOV * max_chunk
       ELSE UNCHANGED <<line, line_size>>
    /\ CGoto("loop")
    /\ UNCHANGED <<cCfg, cSock, stdin, total_sended, txmem, h2dCopies, iov, iovOOB,
                   cSend, cZc, dVars>>

\* mutant: the payload is sent as read, however much room is left
TruncatedNever(tot, ls) == ls

\* lines 839-840
Truncated(tot, ls) == IF tot + ls >= MemSize THEN MemSize - tot ELSE ls

\* lines 829-840: the loop condition, getline, the cut at the buffer's end
c_loop ==
    /\ AtClient("loop")
    /\ IF total_sended >= MemSize
       THEN /\ CGoto("close")
            /\ UNCHANGED <<stdin, line, line_size>>
       ELSE IF do_validation # 0
       THEN /\ line_size' = Truncated(total_sended, line_size)
            /\ CGoto("segment")
            /\ UNCHANGED <<stdin, line>>
       ELSE IF stdin = <<>>
       THEN /\ line' = <<>>
            /\ line_size' = -1
            /\ CGoto("close")
            /\ UNCHANGED stdin
       ELSE /\ line' = SubSeq(stdin, 1, LineLen(stdin))
            /\ stdin' = SubSeq(stdin, LineLen(stdin) + 1, Len(stdin))
            /\ line_size' = Truncated(total_sended, LineLen(stdin))
            /\ CGoto("segment")
    /\ UNCHANGED <<cCfg, cSock, total_sended, txmem, h2dCopies, iov, iovOOB, cSend,
                   cZc, dVars>>

\* lines 842-860.  With max_chunk > 0 and no segment, iov[msg_iovlen - 1] is
\* iov[-1]: the store is undefined behaviour; the process dies on it or runs on.
c_segment ==
    /\ AtClient("segment")
    /\ IF max_chunk > 0 /\ IovCount(line_size, max_chunk) > MAX_IOV
       THEN /\ CFatal("can't partition bytes into maximum of MAX_IOV chunks")
            /\ UNCHANGED <<iov, iovOOB>>
       ELSE IF max_chunk > 0 /\ IovCount(line_size, max_chunk) = 0
       THEN /\ iov' = <<>>
            /\ iovOOB' = TRUE
            /\ \E dies \in BOOLEAN :
                  IF dies
                  THEN /\ cpc' = "crashed"
                       /\ cexit' = 139
                       /\ UNCHANGED <<cfatal, cret>>
                  ELSE CGoto("copy")
       ELSE /\ iov' = Iov(line_size, max_chunk)
            /\ UNCHANGED iovOOB
            /\ CGoto("copy")
    /\ UNCHANGED <<cCfg, cSock, stdin, line, line_size, total_sended, txmem,
                   h2dCopies, cSend, cZc, dVars>>

\* lines 862-865: hipMemcpy(mem->buf_mem, line, line_size, host to device)
c_copy ==
    /\ AtClient("copy")
    /\ txmem' = [i \in DOMAIN txmem |-> IF i < line_size THEN line[i + 1] ELSE txmem[i]]
    /\ h2dCopies' = h2dCopies + 1
    /\ CGoto("sendmsg")
    /\ UNCHANGED <<cCfg, cSock, stdin, line, line_size, total_sended, iov, iovOOB,
                   cSend, cZc, dVars>>

\* the RX side's id in the place of the TX binding's
CmsgDmabufRx == dmabuf_id

\* ddmabuf = tx_dmabuf_id (line 875)
CmsgDmabuf == tx_dmabuf_id

\* the byte count is added without waiting for the completion
AfterSendNoWait == "account"

\* wait_compl follows every sendmsg (line 885, line 1227)
AfterSend == "wait"

\* what sendmsg may return for a request of n bytes
SendRets(n) == {-1} \cup (IF n = 0 THEN {0} ELSE 1 .. n)

\* the kernel's side of sendmsg(MSG_ZEROCOPY) that returned ret >= 0: a send
\* that took bytes gets the next zero-copy number and owes a completion
ZcSend(ret) ==
    /\ sendsIssued' = sendsIssued + 1
    /\ sendRet' = ret
    /\ IF ret > 0
       THEN /\ zcPending' = zcPending \cup {zcSeq}
            /\ zcSeq' = zcSeq + 1
       ELSE UNCHANGED <<zcPending, zcSeq>>

\* lines 867-883
c_sendmsg ==
    /\ AtTxNet({"client", "pair"}, "sendmsg")
    /\ sendsIssued < MaxSends
    /\ sentCmsgs' = <<CmsgDmabuf>>
    /\ \E ret \in SendRets(IovLen(iov, Len(iov))) :
          IF ret < 0
          THEN /\ CFatal("Failed sendmsg")
               /\ sendsIssued' = sendsIssued + 1
               /\ sendRet' = ret
               /\ UNCHANGED <<zcPending, zcSeq, wire>>
          ELSE /\ ZcSend(ret)
               /\ wire' = wire \o SubSeq(IovBytes(txmem, iov, Len(iov)), 1, ret)
               /\ CGoto(AfterSend)
    /\ UNCHANGED <<msgData, cCfg, cSock, cData, errq, noise, complSeen, lastCompl, dVars>>

\* the count stays where it was
AccumulateNone(tot, ret) == tot

\* total_sended += ret
Accumulate(tot, ret) == tot + ret

\* line 887
c_account ==
    /\ AtClient("account")
    /\ total_sended' = Accumulate(total_sended, sendRet)
    /\ CGoto("loop")
    /\ UNCHANGED <<cCfg, cSock, stdin, line, line_size, txmem, h2dCopies, iov, iovOOB,
                   cSend, cZc, dVars>>

\* lines 892-893: free(line); close(socket_fd)
c_close ==
    /\ AtClient("close")
    /\ csk' = [csk EXCEPT !.closed = TRUE]
    /\ CGoto("destroy")
    /\ UNCHANGED <<cCfg, tys, kTxId, tx_dmabuf_id, cData, cSend, cZc, dVars>>

\* lines 895-898: if (ys) ynl_sock_destroy(ys); return 0
c_destroy ==
    /\ AtClient("destroy")
    /\ tys' = IF tys = "open" THEN "destroyed" ELSE tys
    /\ cpc' = "done"
    /\ cret' = 0
    /\ cexit' = 0
    /\ UNCHANGED <<cfatal, cCfg, csk, kTxId, tx_dmabuf_id, cData, cSend, cZc, dVars>>

(***************************************************************************)
(* wait_compl (lines 708-761 and 1105-1159) and the error queue.           *)
(***************************************************************************)
\* IP_RECVERR at SOL_IP, IPV6_RECVERR at SOL_IPV6
RecvErrType(level) == IF level = "SOL_IP" THEN "IP_RECVERR" ELSE "IPV6_RECVERR"

\* the zero-copy completion of send number n
Completion(level, n) ==
    [ctrunc |-> FALSE,
     cmsgs |-> <<[level |-> level, type |-> RecvErrType(level), origin |-> "ZEROCOPY",
                  errno |-> 0, lo |-> n, hi |-> n]>>]

\* other messages a socket's error queue may hold
NoiseMsgs ==
    {[ctrunc |-> FALSE,
      cmsgs |-> <<[level |-> "SOL_IP", type |-> "IP_RECVERR", origin |-> "ICMP",
                   errno |-> 113, lo |-> 0, hi |-> 0]>>],
     [ctrunc |-> FALSE,
      cmsgs |-> <<[level |-> "SOL_IPV6", type |-> "IPV6_RECVERR", origin |-> "ZEROCOPY",
                   errno |-> 105, lo |-> 0, hi |-> 0]>>],
     [ctrunc |-> FALSE,
      cmsgs |-> <<[level |-> "SOL_SOCKET", type |-> "TIMESTAMPING", origin |-> "TIMESTAMPING",
                   errno |-> 42, lo |-> 0, hi |-> 0]>>],
     [ctrunc |-> FALSE,
      cmsgs |-> <<[level |-> "SOL_IP", type |-> "IP_PKTINFO", origin |-> "NONE",
                   errno |-> 0, lo |-> 0, hi |-> 0]>>],
     [ctrunc |-> TRUE, cmsgs |-> <<>>]}

\* the kernel queues the completion of a pending zero-copy send
k_completion ==
    /\ role \in TxRoles /\ role' = role
    /\ UNCHANGED <<testVars, mainVars, libVars>>
    /\ cexit = -1
    /\ \E n \in zcPending, level \in {"SOL_IP", "SOL_IPV6"} :
          /\ zcPending' = zcPending \ {n}
          /\ errq' = Append(errq, Completion(level, n))
    /\ UNCHANGED <<serverVars, netVars, cCtl, cCfg, cSock, cData, cSend, zcSeq, noise,
                   complSeen, lastCompl, dVars>>

\* the kernel queues another message on the error queue
k_noise ==
    /\ role \in TxRoles /\ role' = role
    /\ UNCHANGED <<testVars, mainVars, libVars>>
    /\ cpc = "wait"
    /\ noise < MaxNoise
    /\ noise' = noise + 1
    /\ \E m \in NoiseMsgs : errq' = Append(errq, m)
    /\ UNCHANGED <<serverVars, netVars, cCtl, cCfg, cSock, cData, cSend, zcSeq,
                   zcPending, complSeen, lastCompl, dVars>>

\* lines 736-744: the control messages wait_compl does not skip
IsRecvErr(cm) ==
    /\ cm.level \in {"SOL_IP", "SOL_IPV6"}
    /\ cm.type = RecvErrType(cm.level)

\* any ee_errno passes
ErrnoOkAny(e) == TRUE

\* line 749: serr->ee_errno must be 0
ErrnoOk(e) == e = 0

RECURSIVE FirstRecvErr(_)
\* the first control message of the walk that is not skipped (0: none)
FirstRecvErr(cms) ==
    IF cms = <<>> THEN 0
    ELSE IF IsRecvErr(Head(cms)) THEN 1
    ELSE IF FirstRecvErr(Tail(cms)) = 0 THEN 0
    ELSE 1 + FirstRecvErr(Tail(cms))

\* what one turn of wait_compl's loop may meet
WaitOutcomes == {"timeout", "poll_fail", "poll_none", "recv_eagain", "recv_fail", "recv"}

\* exit() closes the socket: the kernel drops its error queue and what it owed
ExitDropsQueue ==
    /\ errq' = <<>>
    /\ zcPending' = {}
    /\ UNCHANGED <<complSeen, lastCompl>>

\* one turn of the while loop: the deadline, do_poll, recvmsg(MSG_ERRQUEUE),
\* the walk of the control messages
wait_compl(out) ==
    /\ AtTx(TxRoles, "wait")
    /\ (out = "recv") => (errq # <<>>)
    /\ (out = "recv_eagain") => (errq = <<>>)
    /\ CASE out = "timeout" ->
              /\ CFatal("did not receive tx completion")
              /\ ExitDropsQueue
         [] out = "poll_fail" ->
              /\ CFatal("poll")
              /\ ExitDropsQueue
         [] out = "recv_fail" ->
              /\ CFatal("recvmsg(MSG_ERRQUEUE)")
              /\ ExitDropsQueue
         [] out \in {"poll_none", "recv_eagain"} ->
              /\ CGoto("wait")
              /\ UNCHANGED <<errq, zcPending, complSeen, lastCompl>>
         [] out = "recv" ->
              LET m == Head(errq)
                  k == FirstRecvErr(m.cmsgs)
              IN
              IF m.ctrunc
              THEN /\ CFatal("MSG_CTRUNC")
                   /\ ExitDropsQueue
              ELSE IF k = 0
              THEN /\ CGoto("wait")
                   /\ errq' = Tail(errq)
                   /\ UNCHANGED <<zcPending, complSeen, lastCompl>>
              ELSE IF m.cmsgs[k].origin # "ZEROCOPY"
              THEN /\ CFatal("wrong origin")
                   /\ ExitDropsQueue
              ELSE IF ~ErrnoOk(m.cmsgs[k].errno)
              THEN /\ CFatal("wrong errno")
                   /\ ExitDropsQueue
              ELSE /\ complSeen' = complSeen + 1
                   /\ lastCompl' = [lo |-> m.cmsgs[k].lo, hi |-> m.cmsgs[k].hi]
                   /\ errq' = Tail(errq)
                   /\ UNCHANGED zcPending
                   /\ CGoto("account")

c_wait_compl ==
    /\ \E out \in WaitOutcomes : wait_compl(out)
    /\ UNCHANGED <<cCfg, cSock, cData, cSend, zcSeq, noise, dVars>>

(***************************************************************************)
(* client_dma_start (lines 1161-1231).                                     *)
(***************************************************************************)
\* lines 1172-1181: a failing setsockopt is logged, not fatal
DSockStep(from, field, next) ==
    /\ AtDma(from)
    /\ \E ret \in {0, -1} :
          csk' = IF ret = -1 THEN csk ELSE [csk EXCEPT ![field] = TRUE]
    /\ CGoto(next)
    /\ UNCHANGED <<cCfg, tys, kTxId, tx_dmabuf_id, cData, cSend, cZc, dVars>>

d_bindtodevice == DSockStep("d_bindtodevice", "todevice", "d_zerocopy")

d_zerocopy == DSockStep("d_zerocopy", "zerocopy", "d_connect")

\* line 1183: socket_connect is fatal when connect fails
d_connect ==
    /\ AtDma("d_connect")
    /\ \E ret \in {0, -1} :
          IF ret = -1
          THEN /\ csk' = csk
               /\ CFatal("failed to connect()")
          ELSE /\ csk' = [csk EXCEPT !.connected = TRUE]
               /\ CGoto("d_loop")
    /\ UNCHANGED <<cCfg, tys, kTxId, tx_dmabuf_id, cData, cSend, cZc, dVars>>

\* lines 1190-1193
WriteSize(tot, bs) == IF tot + MAX_CHUNK_SIZE < bs THEN MAX_CHUNK_SIZE ELSE bs - tot

\* lines 1189-1213: the loop condition, writesize, the segments
d_loop ==
    /\ AtDma("d_loop")
    /\ IF total < buffer_size
       THEN /\ writesize' = WriteSize(total, buffer_size)
            /\ iov' = DmaIov(total, writesize')
            /\ CGoto("d_sendmsg")
       ELSE /\ UNCHANGED <<writesize, iov>>
            /\ cpc' = "done"
            /\ cexit' = 0
            /\ UNCHANGED <<cfatal, cret>>
    /\ UNCHANGED <<cCfg, cSock, stdin, line, line_size, total_sended, txmem,
                   h2dCopies, iovOOB, cSend, cZc, buffer_size, total>>

\* the byte counts the model lets sendmsg return for a request of n bytes
DmaSendRets(n) == {-1, 1, n} \cup {r \in {CHUNK_SIZE} : r < n}

\* lines 1204-1219
d_sendmsg ==
    /\ AtDma("d_sendmsg")
    /\ sendsIssued < MaxSends
    /\ sentCmsgs' = <<kTxId>>
    /\ \E ret \in DmaSendRets(IovLen(iov, Len(iov))) :
          IF ret < 0 \/ ~csk.zerocopy
          THEN /\ CFatal("failed to sendmsg()")
               /\ sendsIssued' = sendsIssued + 1
               /\ sendRet' = -1
               /\ UNCHANGED <<zcPending, zcSeq>>
          ELSE /\ ZcSend(ret)
               /\ CGoto(AfterSend)
    /\ UNCHANGED <<cCfg, cSock, cData, errq, noise, complSeen, lastCompl, dVars>>

\* line 1229
d_account ==
    /\ AtDma("account")
    /\ total' = total + sendRet
    /\ CGoto("d_loop")
    /\ UNCHANGED <<cCfg, cSock, cData, cSend, cZc, buffer_size, writesize>>

do_client ==
    \/ c_parse_address \/ c_socket \/ c_enable_reuseaddr \/ c_bindtodevice
    \/ c_bind_tx_queue \/ c_bind_local \/ c_zerocopy \/ c_connect
    \/ c_prepare \/ c_loop \/ c_segment \/ c_copy \/ c_sendmsg \/ c_account
    \/ c_close \/ c_destroy

client_dma_start ==
    \/ d_bindtodevice \/ d_zerocopy \/ d_connect \/ d_loop \/ d_sendmsg \/ d_account

(***************************************************************************)
(* Initial state and specification.                                        *)
(***************************************************************************)
\* the RX device buffer holds a distinct byte at every offset
RxPattern == [i \in 0 .. MemSize - 1 |-> i + 1]

ServerInit ==
    /\ spc = "parse" /\ sfatal = "" /\ sret = -1
    /\ nicLog = <<>> /\ tearLog = <<>>
    /\ hsplit \in {0, 2} /\ hsObserved = -1
    /\ ys = "none" /\ kRxId = 0 /\ dmabuf_id = 0
    /\ socket_fd = "none" /\ client_fd = "none" /\ tmp_mem = "null" /\ backlog = 0
    /\ staging = [i \in 0 .. MaxTotal - 1 |-> 0]
    /\ stagingOOB = FALSE
    /\ rxmem = RxPattern
    /\ recvCalls = 0 /\ recvRet = "none" /\ cmIdx = 0 /\ cur = NoCmsg
    /\ fragOps = {} /\ devmemSeen = 0 /\ is_devmem = FALSE
    /\ endptr = ENDPTR_UNSET
    /\ page_aligned_frags = 0 /\ non_page_aligned_frags = 0
    /\ total_received = 0
    /\ lastCopy = [dst |-> 0, src |-> 0, len |-> 0]
    /\ errors = 0 /\ validated = <<>>
    /\ dontneedLog = <<>> /\ doneTokens = {} /\ nextToken = 1

\* socket.c's statics as the loader leaves them: no function of it was called
SocketUnused ==
    /\ xpc = "idle"
    /\ address = "" /\ is_server = FALSE
    /\ sockaddr = "zero" /\ sockfd = "zero"
    /\ sockLog = <<>>
    /\ apiCalls = 0

\* a command line main accepts
GoodOpts == [f |-> "ok", l |-> TRUE, s |-> TRUE, c |-> FALSE, p |-> TRUE]

\* what hipMalloc and hsa_amd_portable_export_dmabuf left in mem
MemStates == {[buf |-> b, fd |-> f] : b \in {"valid", "invalid"}, f \in {"valid", "invalid"}}

\* main has called do_server or do_client with an allocated, exported buffer
MainCalled ==
    /\ mpc = "called" /\ mfatal = ""
    /\ opts = GoodOpts /\ ifindex = 1
    /\ ioLog = <<>>
    /\ main_mem = [buf |-> "valid", fd |-> "valid"]
    /\ SocketUnused

\* main has called run_devmem_tests: mem was never touched
MainCalledTest ==
    /\ mpc = "called" /\ mfatal = ""
    /\ opts = [GoodOpts EXCEPT !.l = FALSE, !.s = FALSE, !.p = FALSE] /\ ifindex = 1
    /\ ioLog = <<>>
    /\ main_mem = [buf |-> "unset", fd |-> "unset"]
    /\ SocketUnused

\* run_devmem_tests is not running: the data-plane roles' queue range is given
TestIdle ==
    /\ rxq = 2 /\ start_queue = 1 /\ num_queues = 1
    /\ test_mem = "unset" /\ bindFd = "none"
    /\ kBoundQueues = {} /\ chanReq = <<>>

\* the sizes client_dma_start is run with
DmaBufferSizes == {0, 1, CHUNK_SIZE + 1, MAX_CHUNK_SIZE + 1}

NoSocket == [open |-> FALSE, reuse |-> FALSE, todevice |-> FALSE, bound |-> FALSE,
             zerocopy |-> FALSE, connected |-> FALSE, closed |-> FALSE]

\* the transmit side before its first step; cfg is <<do_validation, max_chunk, input>>
ClientInit(pc0, cfg) ==
    /\ do_validation = cfg[1] /\ max_chunk = cfg[2]
    /\ stdin0 = cfg[3] /\ stdin = cfg[3]
    /\ cpc = pc0 /\ cfatal = "" /\ cret = -1 /\ cexit = -1
    /\ (pc0 # "segment") => (line = <<>> /\ line_size = 0)
    /\ total_sended = 0
    /\ txmem = [i \in 0 .. MemSize - 1 |-> 0]
    /\ h2dCopies = 0
    /\ iov = <<>> /\ iovOOB = FALSE
    /\ sentCmsgs = <<>> /\ sendRet = 0 /\ sendsIssued = 0
    /\ zcSeq = 0 /\ zcPending = {} /\ errq = <<>> /\ noise = 0
    /\ complSeen = 0 /\ lastCompl = [lo |-> -1, hi |-> -1]
    /\ total = 0 /\ writesize = 0

NetInit == wire = <<>> /\ msgData = <<>>

\* the command lines do_client is run with: -v M or standard input, -z C
ClientConfigs ==
    {<<m, c, <<>> >> : m \in {2}, c \in 0 .. 2}
    \cup {<<0, c, inp>> : c \in 0 .. 2, inp \in Inputs}

(***************************************************************************)
(* do_client kept scheduled.                                               *)
(***************************************************************************)
\* do_client has connected and is about to enter its producer loop
ClientInitial ==
    /\ role = "client"
    /\ exitStatus = -1
    /\ NetInit
    /\ MainCalled
    /\ TestIdle
    /\ ServerInit /\ hsplit = 0
    /\ \E cfg \in ClientConfigs : ClientInit("prepare", cfg)
    /\ csk = [NoSocket EXCEPT !.open = TRUE, !.reuse = TRUE, !.todevice = TRUE,
                              !.zerocopy = TRUE, !.connected = TRUE]
    /\ tys = "open" /\ kTxId \in TxDmabufIds /\ tx_dmabuf_id = kTxId
    /\ buffer_size = 0

ClientNext ==
    \/ c_prepare \/ c_loop \/ c_segment \/ c_copy \/ c_sendmsg \/ c_account
    \/ c_close \/ c_destroy \/ c_wait_compl \/ k_completion \/ k_noise

\* a step of do_client that stays possible is taken; wait_compl does not poll
\* forever, its deadline passes
SpecClientLive ==
    /\ ClientInitial
    /\ [][ClientNext]_vars
    /\ WF_vars(ClientNext)

(***************************************************************************)
(* The segmentation of do_client on its own, for payloads and chunk sizes  *)
(* that do not depend on the size of the device buffer.                    *)
(***************************************************************************)
\* the payload sizes: the small ones, and those around MAX_IOV segments
SegLineSizes(c) ==
    IF c = 0 THEN 0 .. MaxSegLine
    ELSE (1 .. MaxSegLine)
         \cup {MAX_IOV * c - c, MAX_IOV * c - 1, MAX_IOV * c, MAX_IOV * c + 1,
               MAX_IOV * c + c}

\* do_client has read a line of ls bytes and is about to segment it
SegInit ==
    /\ role = "client"
    /\ exitStatus = -1
    /\ NetInit
    /\ MainCalled
    /\ TestIdle
    /\ ServerInit /\ hsplit = 0
    /\ \E c \in 0 .. MaxSegChunk : \E ls \in SegLineSizes(c) :
          /\ ClientInit("segment", <<0, c, <<>> >>)
          /\ line_size = ls
          /\ line = [i \in 1 .. ls |-> 1]
    /\ csk = [NoSocket EXCEPT !.open = TRUE, !.reuse = TRUE, !.todevice = TRUE,
                              !.zerocopy = TRUE, !.connected = TRUE]
    /\ tys = "open" /\ kTxId \in TxDmabufIds /\ tx_dmabuf_id = kTxId
    /\ buffer_size = 0

SegNext == c_segment

SpecSeg == SegInit /\ [][SegNext]_vars

(***************************************************************************)
(* do_client sending to do_server over one TCP connection.                 *)
(***************************************************************************)
\* the peer has closed its end: close(socket_fd) or the exit of the process
PeerClosed == csk.closed \/ cexit # -1

\* what recvmsg returns in the pair: on the accepted socket, which blocks, data
\* or end of stream; on the -1 a failed accept left in client_fd, an error
PairRecvOutcomes == IF client_fd = "bad" THEN {"err"} ELSE {"pos", "zero"}

\* recvmsg on the connection, a blocking socket: it returns data when the
\* stream holds some, and zero once the peer has closed and the stream is drained
rt_recvmsg ==
    /\ role = "pair"
    /\ \E out \in PairRecvOutcomes, n \in 1 .. MemSize :
          /\ CASE out = "pos" ->
                    /\ n <= Len(wire)
                    /\ msgData' = SubSeq(wire, 1, n)
                    /\ wire' = SubSeq(wire, n + 1, Len(wire))
               [] out = "zero" ->
                    /\ n = 1 /\ wire = <<>> /\ PeerClosed
                    /\ UNCHANGED netVars
               [] out = "err" ->
                    /\ n = 1
                    /\ UNCHANGED netVars
          /\ recvmsg(out)
    /\ UNCHANGED <<nicVars, sockVars, memVars, acctVars, tokVars, sLogs>>

\* the device buffer after the NIC placed the bytes data at offset off
Landed(mem, off, data) ==
    [i \in DOMAIN mem |->
        IF i >= off /\ i < off + Len(data) THEN data[i - off + 1] ELSE mem[i]]

\* the next control message of a received message: the kernel describes the
\* message's bytes in order, each piece a fragment in the device buffer or a
\* piece that stayed in host memory
rt_cmsg ==
    /\ role = "pair"
    /\ IF msgData = <<>>
       THEN /\ cmsg_next(NoCmsg)
            /\ UNCHANGED <<netVars, rxmem, nextToken>>
       ELSE \E n \in 1 .. Len(msgData), off \in 0 .. MemSize - 1, dev \in BOOLEAN :
               /\ (cmIdx = MaxCmsgs - 1) => (n = Len(msgData))
               /\ off + n <= MemSize
               /\ (~dev) => (off = 0)
               /\ msgData' = SubSeq(msgData, n + 1, Len(msgData))
               /\ UNCHANGED wire
               /\ IF dev
                  THEN /\ rxmem' = Landed(rxmem, off, SubSeq(msgData, 1, n))
                       /\ nextToken' = nextToken + 1
                       /\ cmsg_next([level |-> "SOL_SOCKET", type |-> "DMABUF",
                                     dmabuf_id |-> kRxId, frag_offset |-> off,
                                     frag_size |-> n, frag_token |-> nextToken])
                  ELSE /\ UNCHANGED <<rxmem, nextToken>>
                       /\ cmsg_next([level |-> "SOL_SOCKET", type |-> "LINEAR",
                                     dmabuf_id |-> 0, frag_offset |-> 0,
                                     frag_size |-> n, frag_token |-> 0])
    /\ UNCHANGED <<nicVars, sockVars, staging, stagingOOB, lastCopy, errors, validated, acctVars,
                   dontneedLog, doneTokens, sLogs>>

\* the log of a NIC setup in which every step succeeded
NicLogDone ==
    [i \in 1 .. Len(NicOps) |->
        [op |-> NicOps[i], arg |-> IF NicOps[i] = "configure_headersplit" THEN "on" ELSE "",
         ret |-> 0]]

\* do_server has accepted the connection do_client made
PairInit ==
    /\ role = "pair"
    /\ exitStatus = -1
    /\ NetInit
    /\ MainCalled
    /\ TestIdle
    /\ spc = "recv" /\ sfatal = "" /\ sret = -1
    /\ nicLog = NicLogDone /\ tearLog = <<>>
    /\ hsplit = 2 /\ hsObserved = -1
    /\ ys = "open" /\ kRxId = 1 /\ dmabuf_id = kRxId
    /\ socket_fd = "listening" /\ client_fd \in {"open", "bad"} /\ tmp_mem = "alloc"
    /\ backlog = 1
    /\ staging = [i \in 0 .. MaxTotal - 1 |-> 0]
    /\ stagingOOB = FALSE
    /\ rxmem = [i \in 0 .. MemSize - 1 |-> 0]
    /\ recvCalls = 0 /\ recvRet = "none" /\ cmIdx = 0 /\ cur = NoCmsg
    /\ fragOps = {} /\ devmemSeen = 0 /\ is_devmem = FALSE
    /\ endptr = ENDPTR_UNSET
    /\ page_aligned_frags = 0 /\ non_page_aligned_frags = 0
    /\ total_received = 0
    /\ lastCopy = [dst |-> 0, src |-> 0, len |-> 0]
    /\ errors = 0 /\ validated = <<>>
    /\ dontneedLog = <<>> /\ doneTokens = {} /\ nextToken = 1
    /\ \E c \in 0 .. 2, inp \in {q \in Inputs : Len(q) <= MemSize} :
          ClientInit("prepare", <<0, c, inp>>)
    /\ csk = [NoSocket EXCEPT !.open = TRUE, !.reuse = TRUE, !.todevice = TRUE,
                              !.zerocopy = TRUE, !.connected = TRUE]
    /\ tys = "open" /\ kTxId \in TxDmabufIds /\ tx_dmabuf_id = kTxId
    /\ buffer_size = 0

PairNext ==
    \/ c_prepare \/ c_loop \/ c_segment \/ c_copy \/ c_sendmsg \/ c_wait_compl
    \/ k_completion \/ c_account \/ c_close \/ c_destroy
    \/ rt_recvmsg \/ s_continue \/ rt_cmsg \/ s_idcheck \/ s_account \/ s_copy \/ s_release
    \/ s_add \/ s_devmem_check \/ s_free \/ s_close_client \/ s_close_listen
    \/ s_destroy

SpecPair == PairInit /\ [][PairNext]_vars

\* the steps of do_server in the pair
PairServerNext ==
    \/ rt_recvmsg \/ s_continue \/ rt_cmsg \/ s_idcheck \/ s_account \/ s_copy \/ s_release
    \/ s_add \/ s_devmem_check \/ s_free \/ s_close_client \/ s_close_listen
    \/ s_destroy

\* the pair with do_server kept scheduled: a step of it that stays possible is taken
SpecPairLive == SpecPair /\ WF_vars(PairServerNext)


(***************************************************************************)
(* do_server run with -v M, from its read loop on.                         *)
(***************************************************************************)
\* the modulus given with -v
ValidationModuli == {2}

\* validate_buffer (lines 125-148): the bytes of the region that differ from
\* the pattern (seed + i) mod m
validate_buffer(region, seed, m) ==
    Cardinality({i \in 1 .. Len(region) : region[i] # ((seed % m) + i - 1) % m})

\* do_server has accepted its connection; -v M was given
ValidateInit ==
    /\ role = "server"
    /\ exitStatus = -1
    /\ NetInit
    /\ MainCalled
    /\ TestIdle
    /\ spc = "recv" /\ sfatal = "" /\ sret = -1
    /\ nicLog = NicLogDone /\ tearLog = <<>>
    /\ hsplit = 2 /\ hsObserved = -1
    /\ ys = "open" /\ kRxId \in DmabufIds /\ dmabuf_id = kRxId
    /\ socket_fd = "listening" /\ client_fd = "open" /\ tmp_mem = "alloc"
    /\ backlog = 1
    /\ staging = [i \in 0 .. MaxTotal - 1 |-> 0]
    /\ stagingOOB = FALSE
    /\ rxmem = RxPattern
    /\ recvCalls = 0 /\ recvRet = "none" /\ cmIdx = 0 /\ cur = NoCmsg
    /\ fragOps = {} /\ devmemSeen = 0 /\ is_devmem = FALSE
    /\ endptr = ENDPTR_UNSET
    /\ page_aligned_frags = 0 /\ non_page_aligned_frags = 0
    /\ total_received = 0
    /\ lastCopy = [dst |-> 0, src |-> 0, len |-> 0]
    /\ errors = 0 /\ validated = <<>>
    /\ dontneedLog = <<>> /\ doneTokens = {} /\ nextToken = 1
    /\ \E m \in ValidationModuli : ClientInit("idle", <<m, 0, <<>> >>)
    /\ csk = NoSocket /\ tys = "none" /\ kTxId = 0 /\ tx_dmabuf_id = 0
    /\ buffer_size = 0

ValidateNext ==
    \/ s_recvmsg \/ s_continue \/ s_cmsg \/ s_idcheck \/ s_account \/ s_copy
    \/ s_release \/ s_add \/ s_devmem_check
    \/ s_free \/ s_close_client \/ s_close_listen \/ s_destroy

SpecValidate == ValidateInit /\ [][ValidateNext]_vars

(***************************************************************************)
(* The self-test: main's queue options (lines 949-967) and                 *)
(* run_devmem_tests (lines 646-683).                                       *)
(***************************************************************************)
AtTest(p) ==
    /\ role = "test"
    /\ role' = role
    /\ spc = p
    /\ UNCHANGED <<clientVars, netVars, sockVars, memVars, loopVars, acctVars,
                   tokVars, tearLog, mainVars, libVars>>

\* rxq_num: the device's RX queue count, -1 if the request got no answer
rxq_num(answered) == IF answered THEN rxq ELSE -1

\* main, no -s and no -c: the default range is the upper half of the queues
t_main ==
    /\ AtTest("parse")
    /\ \E answered \in BOOLEAN :
          IF start_queue < 0 /\ num_queues < 0
          THEN LET n == rxq_num(answered) IN
               IF n < 0
               THEN /\ SFatal("couldn't detect number of queues")
                    /\ num_queues' = n
                    /\ UNCHANGED start_queue
               ELSE IF n < 2
               THEN /\ SFatal("number of device queues is too low")
                    /\ num_queues' = n
                    /\ UNCHANGED start_queue
               ELSE /\ start_queue' = n \div 2
                    /\ num_queues' = n \div 2
                    /\ SGoto("rss")
          ELSE /\ IF start_queue < 0 \/ num_queues < 0
                  THEN SFatal("Both -t and -q are required")
                  ELSE SGoto("rss")
               /\ UNCHANGED <<start_queue, num_queues>>
    /\ UNCHANGED <<rxq, test_mem, bindFd, kBoundQueues, chanReq, nicVars, nicLog>>

\* mem = NULL; if (configure_rss()) error(1, ...)
t_configure_rss ==
    /\ AtTest("rss")
    /\ test_mem' = "NULL"
    /\ \E ret \in CmdStatuses :
          /\ nicLog' = Append(nicLog, [op |-> "configure_rss", arg |-> "", ret |-> ret])
          /\ IF Failed(ret) THEN SFatal("rss error") ELSE SGoto("hs1")
    /\ UNCHANGED <<rxq, start_queue, num_queues, bindFd, kBoundQueues, chanReq, nicVars>>

\* the three configure_headersplit calls: on, off, on
TestHeadersplit(p, on, next) ==
    /\ AtTest(p)
    /\ \E out \in HeadersplitOutcomes, applied \in BOOLEAN, readback \in BOOLEAN :
          /\ (out # "set_ok") => (applied /\ readback)
          /\ configure_headersplit(on, out, applied, readback)
          /\ nicLog' = Append(nicLog, [op |-> "configure_headersplit",
                                       arg |-> IF on THEN "on" ELSE "off",
                                       ret |-> HeadersplitRet(out)])
          /\ IF Failed(HeadersplitRet(out))
             THEN SFatal("Failed to configure header split")
             ELSE SGoto(next)
    /\ UNCHANGED <<ys, kRxId, dmabuf_id, testVars>>

t_configure_headersplit ==
    \/ TestHeadersplit("hs1", TRUE, "bind_blank")
    \/ TestHeadersplit("hs2", FALSE, "bind_off")
    \/ TestHeadersplit("hs3", TRUE, "bind_on")

\* create_queues: num_queues entries, start_queue + i
create_queues == {start_queue + i : i \in 0 .. num_queues - 1}

\* calloc(num_queues, ...): entries that carry neither a type nor an id
BlankQueues == {}

\* the kernel binds only queues the device has
KernelHasQueues(queues) == \A q \in queues : q >= 0 /\ q < rxq

\* reading mem->fd through the pointer: the load faults, or it yields
\* whatever the address holds
DerefOutcomes(ptr) == IF ptr = "NULL" THEN {"segv", "garbage"} ELSE {"buffer"}

\* SIGSEGV ends the process with status 128 + 11
SEGV_STATUS == 139

\* one bind_rx_queue(ifindex, mem->fd, queues, num_queues, &ys) of the self-test;
\* mustFail: the call is expected to return non-zero
TestBind(p, kind, queues, mustFail, next, msg) ==
    /\ AtTest(p)
    /\ \E fd \in DerefOutcomes(test_mem) :
          IF fd = "segv"
          THEN /\ spc' = "crashed"
               /\ exitStatus' = SEGV_STATUS
               /\ UNCHANGED <<sfatal, sret, nicVars, nicLog, bindFd, kBoundQueues>>
          ELSE \E out \in BindOutcomes, id \in DmabufIds :
                  /\ bindFd' = fd
                  /\ (out = "ok") => KernelHasQueues(queues)
                  /\ bind_rx_queue(out, id)
                  /\ kBoundQueues' = IF out = "ok" THEN queues ELSE kBoundQueues
                  /\ nicLog' = Append(nicLog, [op |-> "bind_rx_queue", arg |-> kind,
                                               ret |-> BindRet(out)])
                  /\ IF Failed(BindRet(out)) = mustFail
                     THEN SGoto(next)
                     ELSE SFatal(msg)
                  /\ UNCHANGED <<hsplit, hsObserved>>
    /\ UNCHANGED <<rxq, start_queue, num_queues, test_mem, chanReq>>

t_bind_rx_queue ==
    \/ TestBind("bind_blank", "blank", BlankQueues, TRUE, "hs2",
                "Binding empty queues array should have failed")
    \/ TestBind("bind_off", "queues", create_queues, TRUE, "hs3",
                "Configure dmabuf with header split off should have failed")
    \/ TestBind("bind_on", "queues", create_queues, FALSE, "channels",
                "Failed to bind")

\* ethtool -L refuses to take away a queue the binding holds
KernelChannelsAllowed(rx) == ~(RxBindingActive /\ \E q \in kBoundQueues : q >= rx)

\* if (!configure_channels(num_queues, num_queues - 1)) error(1, ...)
t_configure_channels ==
    /\ AtTest("channels")
    \* the int arguments; the callee takes them as unsigned int
    /\ chanReq' = [rx |-> num_queues, tx |-> num_queues - 1]
    /\ \E ret \in CmdStatuses :
          /\ (ret = 0) => KernelChannelsAllowed(num_queues)
          /\ nicLog' = Append(nicLog, [op |-> "configure_channels", arg |-> "",
                                       ret |-> ret])
          /\ IF ~Failed(ret)
             THEN SFatal("Deactivating a bound queue should be illegal.")
             ELSE SGoto("destroy")
    /\ UNCHANGED <<rxq, start_queue, num_queues, test_mem, bindFd, kBoundQueues, nicVars>>

\* ynl_sock_destroy(ys); back in main: return 0
t_destroy ==
    /\ AtTest("destroy")
    /\ ys' = "destroyed"
    /\ kBoundQueues' = {}
    /\ nicLog' = Append(nicLog, [op |-> "ynl_sock_destroy", arg |-> "", ret |-> 0])
    /\ spc' = "done"
    /\ exitStatus' = 0
    /\ UNCHANGED <<sfatal, sret, hsplit, hsObserved, kRxId, dmabuf_id,
                   rxq, start_queue, num_queues, test_mem, bindFd, chanReq>>

run_devmem_tests ==
    \/ t_configure_rss \/ t_configure_headersplit \/ t_bind_rx_queue
    \/ t_configure_channels \/ t_destroy

\* the command lines of the self-test: -t and -q given or not, on any device
TestInit ==
    /\ role = "test"
    /\ exitStatus = -1
    /\ NetInit
    /\ MainCalledTest
    /\ ServerInit
    /\ ClientInit("idle", <<0, 0, <<>> >>)
    /\ csk = NoSocket /\ tys = "none" /\ kTxId = 0 /\ tx_dmabuf_id = 0
    /\ buffer_size = 0
    /\ rxq \in 0 .. MaxRxq
    /\ start_queue \in -1 .. MaxQueueArg
    /\ num_queues \in -1 .. MaxQueueArg
    /\ test_mem = "unset" /\ bindFd = "none"
    /\ kBoundQueues = {} /\ chanReq = <<>>

TestNext == t_main \/ run_devmem_tests

SpecTest == TestInit /\ [][TestNext]_vars

(***************************************************************************)
(* The data-plane roles, and the whole program.                            *)
(***************************************************************************)
\* the data-plane roles before their first step (-s given)
Init ==
    /\ role \in {"server", "client", "dma"}
    /\ exitStatus = -1
    /\ NetInit
    /\ MainCalled
    /\ TestIdle
    /\ IF role = "server" THEN ServerInit
       ELSE /\ ServerInit
            /\ hsplit = 0
    /\ CASE role = "server" ->
              /\ ClientInit("idle", <<0, 0, <<>> >>)
              /\ csk = NoSocket /\ tys = "none" /\ kTxId = 0 /\ tx_dmabuf_id = 0
              /\ buffer_size = 0
         [] role = "client" ->
              /\ \E cfg \in ClientConfigs : ClientInit("parse", cfg)
              /\ csk = NoSocket /\ tys = "none" /\ kTxId = 0 /\ tx_dmabuf_id = 0
              /\ buffer_size = 0
         [] role = "dma" ->
              \* socket_create made sockfd; the ncdevmem module holds the TX binding
              /\ ClientInit("d_bindtodevice", <<0, 0, <<>> >>)
              /\ csk = [NoSocket EXCEPT !.open = TRUE]
              /\ tys = "open" /\ kTxId \in TxDmabufIds /\ tx_dmabuf_id = 0
              /\ buffer_size \in DmaBufferSizes

Next == do_server \/ do_client \/ client_dma_start \/ c_wait_compl \/ k_completion \/ k_noise

Spec == Init /\ [][Next]_vars

\* main dispatches on the command line: the self-test when neither -s nor -c
\* is given (lines 949-967), do_server or do_client otherwise (line 1007)
MainInit == Init \/ TestInit

MainNext == Next \/ TestNext

SpecMain == MainInit /\ [][MainNext]_vars

(***************************************************************************)
(* main: from the command line to the call of do_server, do_client or      *)
(* run_devmem_tests (lines 901-1010).                                      *)
(***************************************************************************)
AtMain(p) ==
    /\ role = "main"
    /\ mpc = p
    /\ UNCHANGED <<spc, sfatal, sret, nicVars, sockVars, memVars, loopVars, acctVars,
                   tokVars, sLogs, clientVars, netVars>>
    /\ UNCHANGED <<rxq, test_mem, bindFd, kBoundQueues, chanReq, opts, libVars>>

\* error(1, ...) in main
MFatal(msg) ==
    /\ mpc' = "fatal"
    /\ mfatal' = msg
    /\ exitStatus' = 1
    /\ role' = role

MGoto(p) ==
    /\ mpc' = p
    /\ role' = role
    /\ UNCHANGED <<mfatal, exitStatus>>

\* if_nametoindex: 0 when no interface has the name
if_nametoindex(f) == IF f = "ok" THEN 1 ELSE 0

\* lines 942-949: -f is required; its index is taken as it comes; without
\* -s and -c the self-test branch is entered
m_ifname ==
    /\ AtMain("ifname")
    /\ IF opts.f = "none"
       THEN /\ MFatal("Missing -f argument")
            /\ UNCHANGED ifindex
       ELSE /\ ifindex' = if_nametoindex(opts.f)
            /\ IF ~opts.s /\ ~opts.c
               THEN /\ role' = "test"
                    /\ mpc' = "selftest"
                    /\ UNCHANGED <<mfatal, exitStatus>>
               ELSE MGoto("queues")
    /\ UNCHANGED <<start_queue, num_queues, ioLog, main_mem>>

\* lines 969-981: without -t and -q the last queue is taken
m_queues ==
    /\ AtMain("queues")
    /\ IF start_queue < 0 /\ num_queues < 0
       THEN \E a1 \in BOOLEAN, a2 \in BOOLEAN :
               IF rxq_num(a1) < 2
               THEN /\ num_queues' = rxq_num(a1)
                    /\ ioLog' = Append(ioLog, "rxq_num")
                    /\ MFatal("number of device queues is too low")
                    /\ UNCHANGED start_queue
               ELSE /\ num_queues' = 1
                    /\ start_queue' = rxq_num(a2) - 1
                    /\ ioLog' = ioLog \o <<"rxq_num", "rxq_num">>
                    /\ IF start_queue' < 0
                       THEN MFatal("couldn't detect number of queues")
                       ELSE MGoto("checks")
       ELSE /\ MGoto("checks")
            /\ UNCHANGED <<start_queue, num_queues, ioLog>>
    /\ UNCHANGED <<ifindex, main_mem>>

\* lines 986-996
m_checks ==
    /\ AtMain("checks")
    /\ CASE start_queue < 0 -> MFatal("Missing -t argument")
         [] start_queue >= 0 /\ num_queues < 0 -> MFatal("Missing -q argument")
         [] start_queue >= 0 /\ num_queues >= 0 /\ ~opts.s -> MFatal("Missing -s argument")
         [] start_queue >= 0 /\ num_queues >= 0 /\ opts.s /\ ~opts.p ->
               MFatal("Missing -p argument")
         [] OTHER -> MGoto("alloc")
    /\ UNCHANGED <<start_queue, num_queues, ifindex, ioLog, main_mem>>

\* lines 998-1005: hipMalloc and hsa_amd_portable_export_dmabuf; err1 and err2
\* are stored and never read
m_alloc ==
    /\ AtMain("alloc")
    /\ \E m \in MemStates :
          /\ (m.fd = "valid") => (m.buf = "valid")
          /\ main_mem' = m
    /\ ioLog' = ioLog \o <<"hipMalloc", "export_dmabuf">>
    /\ MGoto("dispatch")
    /\ UNCHANGED <<start_queue, num_queues, ifindex>>

\* line 1006: ret = is_server ? do_server(&mem) : do_client(&mem)
m_dispatch ==
    /\ AtMain("dispatch")
    /\ role' = IF opts.l THEN "server" ELSE "client"
    /\ mpc' = "called"
    /\ UNCHANGED <<mfatal, exitStatus, start_queue, num_queues, ifindex, ioLog, main_mem>>

\* the command lines: -f missing, naming no interface or naming one; -l, -s,
\* -c, -p given or not; -t and -q given or not
OptSets ==
    [f : {"none", "bad", "ok"}, l : BOOLEAN, s : BOOLEAN, c : BOOLEAN, p : BOOLEAN]

ArgsInit ==
    /\ role = "main"
    /\ exitStatus = -1
    /\ NetInit
    /\ ServerInit
    /\ ClientInit("parse", <<0, 0, <<>> >>)
    /\ csk = NoSocket /\ tys = "none" /\ kTxId = 0 /\ tx_dmabuf_id = 0
    /\ buffer_size = 0
    /\ rxq \in 0 .. MaxRxq
    /\ start_queue \in -1 .. MaxQueueArg
    /\ num_queues \in -1 .. MaxQueueArg
    /\ test_mem = "unset" /\ bindFd = "none"
    /\ kBoundQueues = {} /\ chanReq = <<>>
    /\ mpc = "ifname" /\ mfatal = ""
    /\ opts \in OptSets
    /\ ifindex = 0
    /\ ioLog = <<>>
    /\ main_mem = [buf |-> "unset", fd |-> "unset"]
    /\ SocketUnused

\* main, then the first steps of whichever role it calls
ArgsNext ==
    \/ m_ifname \/ m_queues \/ m_checks \/ m_alloc \/ m_dispatch
    \/ t_main \/ t_configure_rss
    \/ s_parse_address \/ s_reset_flow_steering
    \/ c_parse_address \/ c_socket

SpecArgs == ArgsInit /\ [][ArgsNext]_vars

(***************************************************************************)
(* Properties of do_server.                                                *)
(***************************************************************************)
WrongIdMsg == "received on wrong dmabuf_id: flow steering error"
NoDevmemMsg == "flow steering error"
DontneedMsg == "SO_DEVMEM_DONTNEED not enough tokens"

LoopPcs == {"recv", "retry", "cmsg", "idcheck", "account", "copy", "release", "add",
            "devmem_check"}
TeardownPcs == {"free", "close_client", "close_listen", "destroy", "done"}
TeardownOrder == <<"free", "close_client", "close_listen", "ynl_sock_destroy">>

IsPrefix(a, b) ==
    /\ Len(a) <= Len(b)
    /\ \A i \in 1 .. Len(a) : a[i] = b[i]

\* the SO_DEVMEM_DONTNEED calls made for token t
ReleasesOf(t) == {i \in DOMAIN dontneedLog : dontneedLog[i].token_start = t}

LastRelease == dontneedLog[Len(dontneedLog)]

\* C1: whatever do_server has done for a DMABUF fragment (counted it, copied
\* it, released its token, added it to total_received), the fragment carries
\* the id recorded by the binding; a fragment with another id ends the
\* process with nothing done for it and its token never released.
C1_FragmentIdVerified ==
    /\ (fragOps # {}) => (cur.dmabuf_id = dmabuf_id /\ dmabuf_id = kRxId)
    /\ (sfatal = WrongIdMsg) =>
          /\ cur.dmabuf_id # dmabuf_id
          /\ fragOps = {}
          /\ ReleasesOf(cur.frag_token) = {}
          /\ cur.frag_token \notin doneTokens

\* C1 witness: a fragment with the bound id was processed, then one with
\* another id ended the process.
C1_Witness == sfatal = WrongIdMsg /\ total_received > 0

\* C3: the NIC steps are issued in the order reset_flow_steering,
\* configure_headersplit(on), configure_rss, configure_flow_steering, sleep,
\* bind_rx_queue, each at most once; the bind is issued only after header
\* split, RSS and the flow rule each reported success, and a failure of any
\* of them ends the process at that step.
C3_NicOrder ==
    /\ Len(nicLog) <= Len(NicOps)
    /\ \A i \in 1 .. Len(nicLog) : nicLog[i].op = NicOps[i]
    /\ \A i \in 1 .. Len(nicLog) :
          (nicLog[i].op = "configure_headersplit") => (nicLog[i].arg = "on")
    /\ \A i \in 1 .. Len(nicLog) :
          (nicLog[i].op = "bind_rx_queue") =>
              \A j \in 2 .. 4 : nicLog[j].ret = 0
    /\ \A i \in 1 .. Len(nicLog) :
          (nicLog[i].op # "bind_rx_queue" /\ nicLog[i].ret # 0) =>
              (spc = "fatal" /\ Len(nicLog) = i)

\* C3 witness: the whole sequence ran and the bind succeeded.
C3_Witness == Len(nicLog) = 6 /\ nicLog[6].ret = 0 /\ spc = "malloc"

\* C4: do_server is in its read loop (where every recvmsg is issued) only
\* while the RX binding made by a successful bind_rx_queue is active, and
\* the session of that binding is destroyed only once the loop was left and
\* the sockets were closed.
C4_RecvWhileBound ==
    /\ (spc \in LoopPcs) =>
          /\ RxBindingActive
          /\ kRxId # 0
          /\ Len(nicLog) = 6 /\ nicLog[6].ret = 0
    /\ (recvCalls > 0) => (kRxId # 0)
    /\ (ys = "destroyed" /\ kRxId # 0) =>
          (spc = "done" /\ recvRet = "zero" /\ client_fd = "closed")

\* C4 witness: data was received, the loop was left and the session destroyed.
C4_Witness == spc = "done" /\ ys = "destroyed" /\ recvCalls >= 2 /\ total_received > 0

\* C7: for the fragment being processed the copy (frag_size bytes from
\* frag_offset to staging index total_received) is made before the token is
\* released; every token is released at most once, always with a count of 1,
\* and the token of every fragment added to total_received exactly once.
C7_CopyThenReleaseOnce ==
    /\ ("release" \in fragOps) =>
          /\ "copy" \in fragOps
          /\ lastCopy = [dst |-> IF "add" \in fragOps
                                 THEN total_received - cur.frag_size
                                 ELSE total_received,
                         src |-> cur.frag_offset,
                         len |-> cur.frag_size]
    /\ ("copy" \in fragOps) =>
          \A j \in 0 .. lastCopy.len - 1 :
              staging[lastCopy.dst + j] = rxmem[lastCopy.src + j]
    /\ ("add" \in fragOps) => ("release" \in fragOps)
    /\ \A i \in DOMAIN dontneedLog : dontneedLog[i].token_count = 1
    /\ \A i, j \in DOMAIN dontneedLog :
          (dontneedLog[i].token_start = dontneedLog[j].token_start) => (i = j)
    /\ \A t \in doneTokens : Cardinality(ReleasesOf(t)) = 1

\* C7 witness: two fragments were copied and released.
C7_Witness == Cardinality(doneTokens) = 2 /\ "add" \in fragOps

\* C8 as claimed: a release that returns 0 is a success (the fragment is
\* added and the walk goes on) and only another return ends the process.
C8_ZeroIsSuccess ==
    ("release" \in fragOps) =>
        IF LastRelease.ret = 0
        THEN sfatal # DontneedMsg
        ELSE sfatal = DontneedMsg

\* C8 amended: a release is a success when the call returns 1, the number of
\* tokens handed back; then the fragment is added to total_received and the
\* walk goes on.  Every other return, 0 included, ends the process with the
\* fragment not added.
C8_OneIsSuccess ==
    ("release" \in fragOps) =>
        IF LastRelease.ret = 1
        THEN /\ sfatal = ""
             /\ \/ spc = "add" /\ total_received = lastCopy.dst
                \/ /\ spc = "cmsg" /\ "add" \in fragOps
                   /\ total_received = lastCopy.dst + cur.frag_size
                   /\ cur.frag_token \in doneTokens
        ELSE /\ spc = "fatal" /\ sfatal = DontneedMsg
             /\ total_received = lastCopy.dst
             /\ cur.frag_token \notin doneTokens

\* C8 witness: a release returned 1 and the fragment was added.
C8_Witness ==
    "add" \in fragOps /\ LastRelease.ret = 1 /\ total_received = cur.frag_size

\* C9: do_server goes back to recvmsg after a message with data exactly when
\* the message carried a socket-level DMABUF or LINEAR descriptor; without
\* one it ends with the flow-steering error, and that error is raised for no
\* other message.  Descriptors of an earlier message do not count.
C9_NoDevmemIsFatal ==
    /\ (spc = "devmem_check") => (is_devmem <=> devmemSeen > 0)
    /\ (spc = "recv" /\ recvRet = "pos") => devmemSeen > 0
    /\ (sfatal = NoDevmemMsg) => (recvRet = "pos" /\ devmemSeen = 0)
    /\ (spc = "recv") => ~is_devmem \/ recvRet = "pos"

\* C9 witness: a second message without descriptors ended the process after a
\* first one that carried only a LINEAR descriptor.
C9_Witness ==
    sfatal = NoDevmemMsg /\ recvCalls = 2 /\ nextToken = 1 /\ cur.type = "LINEAR"

\* C10: after a recvmsg that returned zero no control message of that call
\* is walked and no error is raised; the teardown is free, close(client_fd),
\* close(socket_fd), ynl_sock_destroy in that order, and do_server returns 0.
\* Teardown runs for no other reason.
C10_PeerCloseTeardown ==
    /\ (recvRet = "zero") =>
          /\ spc \in TeardownPcs
          /\ sfatal = "" /\ exitStatus \in {-1, 0}
          /\ cmIdx = 0 /\ devmemSeen = 0
    /\ IsPrefix(tearLog, TeardownOrder)
    /\ (spc \in TeardownPcs) => (recvRet = "zero")
    /\ (tearLog # <<>>) => (recvRet = "zero")
    /\ (spc = "done") => (tearLog = TeardownOrder /\ sret = 0 /\ exitStatus = 0)
    /\ (sret # -1) => (spc = "done")

\* C10 witness: the peer closed after data had been received, and do_server
\* returned.
C10_Witness == spc = "done" /\ total_received > 0 /\ recvCalls = 2


(***************************************************************************)
(* The transmit side.                                                      *)
(***************************************************************************)
\* the completions waiting on the error queue
QueuedCompletions ==
    {i \in 1 .. Len(errq) :
        /\ ~errq[i].ctrunc
        /\ \E k \in 1 .. Len(errq[i].cmsgs) :
              /\ IsRecvErr(errq[i].cmsgs[k])
              /\ errq[i].cmsgs[k].origin = "ZEROCOPY"
              /\ errq[i].cmsgs[k].errno = 0}

\* the sends whose completion wait_compl has not observed yet
AwaitingCompletion == Cardinality(zcPending) + Cardinality(QueuedCompletions)

\* the positions from which the transmit loops copy into the buffer or send
ProducerPcs == {"loop", "segment", "copy", "sendmsg", "d_loop", "d_sendmsg"}

\* C2: the transmit path is single-outstanding.  In do_client and in
\* client_dma_start at most one send awaits its completion at any time, and
\* whenever the loop is where it may copy into the device buffer or send
\* again, no send awaits completion: wait_compl has observed one completion
\* for every send issued, the last one naming the last send.
C2_SingleOutstanding ==
    (role \in {"client", "dma"}) =>
        /\ AwaitingCompletion <= 1
        /\ (cpc \in ProducerPcs) =>
              /\ AwaitingCompletion = 0
              /\ complSeen = sendsIssued
              /\ (sendsIssued > 0) => (lastCompl.lo <= zcSeq - 1 /\ zcSeq - 1 <= lastCompl.hi)

\* a second send is out while the first one's completion has been observed
C2_Witness ==
    /\ role = "client"
    /\ cpc = "wait"
    /\ sendsIssued = 2
    /\ complSeen = 1
    /\ h2dCopies = 2
    /\ AwaitingCompletion = 1

\* C5: every zero-copy send of do_client goes out on a connected socket with
\* the zero-copy option on, carrying exactly one control message that names
\* the tx_dmabuf_id a successful bind_tx_queue returned, while the control
\* session of that binding is open; that session is destroyed only once the
\* socket is closed, and no send follows.
C5_SendPreconditions ==
    [][(role = "client") =>
          /\ (sendsIssued' # sendsIssued) =>
                /\ csk.open /\ csk.connected /\ csk.zerocopy /\ ~csk.closed
                /\ tys = "open"
                /\ kTxId \in TxDmabufIds
                /\ sentCmsgs' = <<kTxId>>
          /\ (kTxId # 0 /\ tys = "open" /\ tys' = "destroyed") =>
                /\ csk.closed
                /\ cpc' = "done"]_vars

\* do_client returned after a send, its session destroyed after the close
C5_Witness ==
    /\ role = "client"
    /\ cpc = "done"
    /\ sendsIssued > 0
    /\ sentCmsgs = <<kTxId>>
    /\ csk.closed
    /\ tys = "destroyed"

(***************************************************************************)
(* The round trip.                                                         *)
(***************************************************************************)
\* the first n bytes of the staging area
StagingPrefix(n) == [i \in 1 .. n |-> staging[i - 1]]

\* C6: round trip.  When do_client has sent a byte string B no longer than
\* the device buffer and returned, and do_server has read the connection to
\* its end and returned, the staging area holds exactly B, however sendmsg
\* split the sends and however the stream arrived in fragments.
C6_RoundTrip ==
    (role = "pair" /\ cpc = "done" /\ spc = "done") =>
        /\ total_received = Len(stdin0)
        /\ StagingPrefix(Len(stdin0)) = stdin0

(***************************************************************************)
(* Termination of the read loop.                                           *)
(***************************************************************************)
\* C11: the read loop of do_server terminates on peer close.  Whatever accept
\* returned, once the peer has closed the connection the loop is eventually
\* left, do_server being kept scheduled; and a receive that returned a
\* negative value leads only to the next receive, with total_received, endptr
\* and the fragment counters as they were.
C11_LoopEndsOnPeerClose ==
    /\ (PeerClosed /\ spc \in LoopPcs) ~> (spc \notin LoopPcs)
    /\ [][(spc = "recv" /\ recvRet' # recvRet /\ Negative(recvRet')) =>
             /\ spc' = "retry"
             /\ UNCHANGED acctVars]_vars

(***************************************************************************)
(* wait_compl.                                                             *)
(***************************************************************************)
\* wait_compl takes a message off the error queue in this step
ReadsErrq == cpc = "wait" /\ errq # <<>> /\ Len(errq') < Len(errq)

\* the first control message of the queue's head that wait_compl looks at
HeadRecvErr == Head(errq).cmsgs[FirstRecvErr(Head(errq).cmsgs)]

\* C12: wait_compl returns only on a completion.  It goes back to its caller
\* only in a step that read from the error queue a message, not truncated,
\* whose first IP- or IPv6-level receive-error control message has origin
\* ZEROCOPY and errno 0; it is left in no other way than by that return or by
\* a fatal exit with a non-zero status; and a message read with MSG_CTRUNC,
\* with a wrong origin or with a non-zero errno ends the process.
C12_ReturnsOnlyOnCompletion ==
    [][/\ (cpc = "wait" /\ cpc' = "account") =>
             /\ ReadsErrq
             /\ ~Head(errq).ctrunc
             /\ FirstRecvErr(Head(errq).cmsgs) # 0
             /\ HeadRecvErr.level \in {"SOL_IP", "SOL_IPV6"}
             /\ HeadRecvErr.type \in {"IP_RECVERR", "IPV6_RECVERR"}
             /\ HeadRecvErr.origin = "ZEROCOPY"
             /\ HeadRecvErr.errno = 0
             /\ lastCompl' = [lo |-> HeadRecvErr.lo, hi |-> HeadRecvErr.hi]
             /\ complSeen' = complSeen + 1
       /\ (cpc = "wait" /\ cpc' # "wait") =>
             \/ cpc' = "account"
             \/ cpc' = "fatal" /\ cexit' = 1 /\ complSeen' = complSeen
       /\ (ReadsErrq /\ Head(errq).ctrunc) => (cpc' = "fatal")
       /\ (ReadsErrq /\ ~Head(errq).ctrunc /\ FirstRecvErr(Head(errq).cmsgs) # 0
              /\ (HeadRecvErr.origin # "ZEROCOPY" \/ HeadRecvErr.errno # 0)) =>
             (cpc' = "fatal")]_vars

\* wait_compl returned after it had read and skipped another message
C12_Witness ==
    /\ cpc = "account"
    /\ complSeen = 1
    /\ noise = 1
    /\ errq = <<>>
    /\ lastCompl.hi = 0

(***************************************************************************)
(* Segmentation.                                                           *)
(***************************************************************************)
\* the least k with k * c >= n
CeilDiv(n, c) == CHOOSE k \in 0 .. n : k * c >= n /\ (k = 0 \/ (k - 1) * c < n)

\* C13: segmentation in do_client.  A payload of line_size bytes with
\* max_chunk C > 0 goes out as k = ceil(line_size / C) segments, k <= 1024,
\* segment i at offset i * C, all of length C but the last, which has the
\* remainder, so that the lengths add up to line_size; a payload that needs
\* more than 1024 segments ends the process before any send; with C = 0 the
\* message is one segment of line_size bytes at offset 0.
C13_Segmentation ==
    LET k == Len(iov)
        C == max_chunk
    IN
    /\ (cpc = "copy" /\ C > 0) =>
          /\ k = CeilDiv(line_size, C)
          /\ k <= MAX_IOV
          /\ \A i \in 1 .. k :
                /\ iov[i].base = (i - 1) * C
                /\ (i < k) => (iov[i].len = C)
          /\ iov[k].len = line_size - (k - 1) * C
          /\ iov[k].len \in 1 .. C
          /\ IovLen(iov, k) = line_size
    /\ (cpc = "copy" /\ C = 0) => (iov = <<[base |-> 0, len |-> line_size]>>)
    /\ (C > 0 /\ CeilDiv(line_size, C) > MAX_IOV) =>
          /\ cpc \in {"segment", "fatal"}
          /\ sendsIssued = 0
    /\ (cpc = "fatal") => (C > 0 /\ CeilDiv(line_size, C) > MAX_IOV /\ iov = <<>>)

\* a payload cut into the largest number of segments, the last one short
C13_Witness ==
    /\ cpc = "copy"
    /\ max_chunk = 2
    /\ line_size = MAX_IOV * 2 - 1
    /\ Len(iov) = MAX_IOV
    /\ iov[MAX_IOV].len = 1

(***************************************************************************)
(* The zero-length send.                                                   *)
(***************************************************************************)
\* the message of the deadline of wait_compl (line 760)
NoCompletionMsg == "did not receive tx completion"

\* C14: a payload of line_size = 0.  do_client sends it as a zero-length
\* message, sendmsg returns 0, and the producer carries on: no entry outside
\* iov[0 .. 1023] has been written, and the process is not ended because no
\* completion came for that send.
C14_ZeroLengthSend ==
    (role = "client" /\ line_size = 0 /\ sendsIssued > 0 /\ sendRet = 0) =>
        /\ ~iovOOB
        /\ IovLen(iov, Len(iov)) = 0
        /\ cfatal # NoCompletionMsg

(***************************************************************************)
(* Termination of the producer loop.                                       *)
(***************************************************************************)
\* the positions inside the while loop of do_client
ClientLoopPcs == {"loop", "segment", "copy", "sendmsg", "wait", "account"}

\* the source has no more input: getline returned -1
SourceExhausted == do_validation = 0 /\ stdin = <<>>

TestOrder ==
    << <<"configure_rss", "">>, <<"configure_headersplit", "on">>,
       <<"bind_rx_queue", "blank">>, <<"configure_headersplit", "off">>,
       <<"bind_rx_queue", "queues">>, <<"configure_headersplit", "on">>,
       <<"bind_rx_queue", "queues">>, <<"configure_channels", "">>,
       <<"ynl_sock_destroy", "">> >>

\* the steps that must fail: the first two binds and the channel request
MustFailSteps == {3, 5, 8}

\* step i of the log came out as the self-test expects
Met(i) == (nicLog[i].ret # 0) <=> (i \in MustFailSteps)

\* the steps run in order, and the exit status tells whether all were met
SelfTestOrderAndStatus ==
    /\ Len(nicLog) <= Len(TestOrder)
    /\ \A i \in 1 .. Len(nicLog) :
          /\ <<nicLog[i].op, nicLog[i].arg>> = TestOrder[i]
          /\ (i < Len(nicLog)) => Met(i)
          /\ (~Met(i)) => (exitStatus \notin {-1, 0})
    /\ (exitStatus = 0) <=>
          (Len(nicLog) = Len(TestOrder) /\ \A i \in 1 .. Len(nicLog) : Met(i))

\* every bind was handed the descriptor of an allocated device buffer
BindsUseBuffer ==
    /\ exitStatus # SEGV_STATUS
    /\ (bindFd # "none") => (bindFd = "buffer")

\* C16: the self-test runs its steps in order against a validly allocated
\* device buffer (RSS and header split on succeed, the blank bind fails,
\* the bind with header split off fails, the bind with header split on
\* succeeds, the channel shrink fails, the handle is destroyed), exits 0
\* exactly when every expectation was met, and exits non-zero at the first
\* step that deviates.
C16_SelfTestSequence == SelfTestOrderAndStatus /\ BindsUseBuffer

\* the channel request has been made and its handle is still there
ChannelRequested == chanReq # <<>> /\ spc # "done"

RxBindReturns ==
    /\ Len(nicLog') = Len(nicLog) + 1
    /\ nicLog'[Len(nicLog')].op = "bind_rx_queue"

\* this step is do_client's bind_tx_queue call returning
TxBindReturns == cpc = "bind_tx" /\ cpc' # "bind_tx"

\* the process returned from main: do_server, do_client or the self-test ended
\* without error(1, ...)
NonFatalExit == role \in {"server", "client", "test"} /\ (exitStatus = 0 \/ cexit = 0)

\* C18: a bind that returns failure has destroyed the session it opened and
\* leaves dmabuf_id / tx_dmabuf_id as they were; a bind that returns success
\* leaves one open session, the only one; every non-fatal exit of the caller
\* has destroyed it, and with it the kernel's hold on the queues.
C18_BindingScoped ==
    /\ [][RxBindReturns =>
            IF nicLog'[Len(nicLog')].ret # 0
            THEN ys' # "open" /\ dmabuf_id' = dmabuf_id
            ELSE ys # "open" /\ ys' = "open" /\ dmabuf_id' = kRxId']_vars
    /\ [][TxBindReturns =>
            IF cpc' = "fatal"
            THEN tys' # "open" /\ tx_dmabuf_id' = tx_dmabuf_id
            ELSE tys # "open" /\ tys' = "open" /\ tx_dmabuf_id' = kTxId']_vars
    /\ [](NonFatalExit =>
            /\ ys # "open" /\ tys # "open"
            /\ kBoundQueues = {})

\* C18 witness: in the self-test the bind with header split off failed with
\* its session destroyed, the next bind succeeded, and the run ended with
\* the handle destroyed.
C18_Witness ==
    /\ role = "test" /\ exitStatus = 0
    /\ ys = "destroyed"
    /\ Len(nicLog) = Len(TestOrder)
    /\ nicLog[5].ret # 0 /\ nicLog[7].ret = 0

(***************************************************************************)
(* Properties of configure_headersplit.                                    *)
(***************************************************************************)
\* do_server's configure_headersplit(1) has returned
HeadersplitReturned == role = "server" /\ Len(nicLog) >= 2

\* C19: configure_headersplit(on) reports success only when the read of the
\* ring settings that follows the set request showed the requested value;
\* when the value read back differs, or the read fails, do_server ends at
\* that step instead of going on to the bind.
C19_HeadersplitConfirmed ==
    HeadersplitReturned =>
        /\ (nicLog[2].ret = 0) => (hsObserved = 2)
        /\ (hsObserved # 2) => (spc = "fatal" /\ Len(nicLog) = 2)

(***************************************************************************)
(* Properties of validation on the receive side.                           *)
(***************************************************************************)
\* the bytes the last hipMemcpy put into tmp_mem
CopiedRegion == [i \in 1 .. lastCopy.len |-> staging[lastCopy.dst + i - 1]]

\* validation failures allowed before the process ends
MAX_ERRORS == 20

\* C20: with -v M, do_server hands every DMABUF fragment it copied to the
\* validator with seed (bytes received before the fragment) mod M, the
\* validator counts the bytes that differ from (seed + i) mod M, and the
\* process ends once more than 20 bytes differed over all regions, and not
\* before.
C20_RxValidation ==
    (do_validation # 0 /\ "copy" \in fragOps /\ ~stagingOOB) =>
        /\ validated # <<>>
        /\ validated[Len(validated)] =
              [seed |-> lastCopy.dst % do_validation, size |-> lastCopy.len]
        /\ errors >= validate_buffer(CopiedRegion, lastCopy.dst, do_validation)
        /\ (errors > MAX_ERRORS) <=> (sfatal = "validation failed.")

(***************************************************************************)
(* Properties of the contiguity accounting.                                *)
(***************************************************************************)
\* DMABUF fragments that went through the accounting of lines 575-586
FragsAccounted ==
    Cardinality(doneTokens)
        + (IF "count" \in fragOps /\ "add" \notin fragOps THEN 1 ELSE 0)

\* C21: every processed DMABUF fragment is counted as page-aligned or as
\* non-page-aligned, so the two counters add up to the number of fragments
\* processed (at least 1 once a fragment was received), and after each
\* fragment endptr is that fragment's frag_offset + frag_size.
C21_ContiguityAccounting ==
    /\ page_aligned_frags + non_page_aligned_frags = FragsAccounted
    /\ ("count" \in fragOps) => (endptr = cur.frag_offset + cur.frag_size)

(***************************************************************************)
(* Properties of main.                                                     *)
(***************************************************************************)
\* the queue detection ended main after it had stored the count in num_queues
TooFewQueues == "number of device queues is too low" \in {mfatal, sfatal}

\* exactly one of -t and -q was given
OneQueueOption == ~TooFewQueues /\ ((start_queue < 0) # (num_queues < 0))

\* a command line that is an error: no interface, one of -t / -q alone, or a
\* data-plane role without -s or -p
ConfigurationError ==
    \/ opts.f # "ok"
    \/ OneQueueOption
    \/ (opts.s \/ opts.c) /\ (~opts.s \/ ~opts.p)

\* nothing has gone to the kernel, the NIC, the device or a socket
NoIoYet ==
    /\ ioLog = <<>>
    /\ nicLog = <<>>
    /\ ~csk.open
    /\ spc \in {"parse", "fatal"}

\* C22: with no interface name, a name that is no interface, exactly one of
\* -t / -q, or a data-plane role without -s or -p, main ends with a non-zero
\* status before any netlink request, ethtool command, device-memory
\* allocation or socket operation.
C22_ConfigErrorsBeforeIo ==
    ConfigurationError =>
        /\ NoIoYet
        /\ mpc # "called"
        /\ (mpc = "fatal" \/ spc = "fatal") => (exitStatus = 1)

\* main has handed mem to do_server or do_client
BufferInUse == mpc = "called" /\ role \in {"server", "client"}

\* C23: when the device-memory allocation or the dma-buf export fails, main
\* does not call do_server or do_client: no NIC configuration, bind or socket
\* operation runs with a buffer whose memory or fd is invalid.
C23_NoRoleWithInvalidBuffer ==
    BufferInUse => (main_mem.buf = "valid" /\ main_mem.fd = "valid")

(***************************************************************************)
(* Properties of the staging region.                                       *)
(***************************************************************************)
\* C24: tmp_mem has the size of the device buffer, and every fragment copy
\* writes [total_received, total_received + frag_size) inside it, whatever
\* was received on the connection before.
C24_StagingBounds ==
    /\ ~stagingOOB
    /\ ("copy" \in fragOps) => (lastCopy.dst + lastCopy.len <= MemSize)

(***************************************************************************)
(* Properties of the transmit buffer.                                      *)
(***************************************************************************)
\* the size of the buffer the running loop sends from
TxBufferSize == IF role = "dma" THEN buffer_size ELSE MemSize

\* the bytes the running loop has counted as sent
TxTotal == IF role = "dma" THEN total ELSE total_sended

\* the loop is about to call sendmsg with the segments in iov
SendDue == cpc \in {"sendmsg", "d_sendmsg"}

\* C25: in do_client and in client_dma_start, with every send returning no
\* more than it was asked for, the running total never exceeds the buffer
\* size, every send has between 1 and 1024 segments, and every segment
\* [offset, offset + length) lies inside [0, buffer size).
C25_TxBounds ==
    (role \in {"client", "dma"}) =>
        /\ TxTotal <= TxBufferSize
        /\ ~iovOOB
        /\ SendDue =>
              /\ Len(iov) \in 1 .. MAX_IOV
              /\ \A i \in 1 .. Len(iov) :
                    /\ iov[i].base >= 0
                    /\ iov[i].len >= 0
                    /\ iov[i].base + iov[i].len <= TxBufferSize

\* C25 witness: client_dma_start sent a buffer one byte larger than 1024
\* segments hold, the first send with all 1024 segments.
C25_Witness ==
    /\ role = "dma" /\ cpc = "done"
    /\ buffer_size = MAX_CHUNK_SIZE + 1
    /\ total = buffer_size
    /\ sendsIssued = 2

(***************************************************************************)
(* socket.c: socket_create, socket_connect, socket_accept.                 *)
(***************************************************************************)
MaxApiCalls == 3

BACKLOG == 15

\* the addresses a caller passes to socket_create
Addresses == {"a1", "a2"}

AtLib(p) ==
    /\ role = "sock"
    /\ role' = role
    /\ xpc = p
    /\ UNCHANGED <<spc, sfatal, sret, nicVars, sockVars, memVars, loopVars, acctVars,
                   tokVars, sLogs, clientVars, netVars, testVars, mainVars>>

\* r = call(...); if (r == -1) ERR(...): log, then exit(EXIT_FAILURE)
LibCall(call, arg, n, next) ==
    \E ok \in BOOLEAN :
        /\ sockLog' = Append(sockLog, [call |-> call, arg |-> arg, n |-> n,
                                       ret |-> IF ok THEN 0 ELSE -1])
        /\ IF ok
           THEN /\ xpc' = next
                /\ exitStatus' = exitStatus
           ELSE /\ xpc' = "exit"
                /\ exitStatus' = 1

\* socket_create with the test on is_server dropped
socket_create_unconditional(srv) == "reuseaddr"

\* if (is_server) { socket_reuseaddr; bind; listen }
socket_create_branch(srv) == IF srv THEN "reuseaddr" ELSE "idle"

\* the caller enters socket_create(address, port, is_server)
x_socket_create ==
    /\ AtLib("idle")
    /\ apiCalls < MaxApiCalls
    /\ apiCalls' = apiCalls + 1
    /\ \E a \in Addresses, srv \in BOOLEAN :
          /\ address' = a
          /\ is_server' = srv
          /\ sockLog' = Append(sockLog, [call |-> "socket_create", arg |-> a, n |-> 0,
                                         ret |-> 0])
    /\ xpc' = "socket"
    /\ UNCHANGED <<sockaddr, sockfd, exitStatus>>

\* sockfd = socket(AF_INET, SOCK_STREAM, 0), then sockaddr is filled in
x_socket ==
    /\ AtLib("socket")
    /\ \E ok \in BOOLEAN :
          /\ sockLog' = Append(sockLog, [call |-> "socket", arg |-> "AF_INET", n |-> 0,
                                         ret |-> IF ok THEN 0 ELSE -1])
          /\ IF ok
             THEN /\ sockfd' = "open"
                  /\ sockaddr' = address
                  /\ xpc' = socket_create_branch(is_server)
                  /\ exitStatus' = exitStatus
             ELSE /\ sockfd' = "bad"
                  /\ sockaddr' = sockaddr
                  /\ xpc' = "exit"
                  /\ exitStatus' = 1
    /\ UNCHANGED <<address, is_server, apiCalls>>

\* socket_reuseaddr: SO_REUSEADDR first
x_reuseaddr ==
    /\ AtLib("reuseaddr")
    /\ LibCall("setsockopt", "SO_REUSEADDR", 0, "reuseport")
    /\ UNCHANGED <<address, is_server, sockaddr, sockfd, apiCalls>>

\* socket_reuseaddr: then SO_REUSEPORT
x_reuseport ==
    /\ AtLib("reuseport")
    /\ LibCall("setsockopt", "SO_REUSEPORT", 0, "bind")
    /\ UNCHANGED <<address, is_server, sockaddr, sockfd, apiCalls>>

x_bind ==
    /\ AtLib("bind")
    /\ LibCall("bind", sockaddr, 0, "listen")
    /\ UNCHANGED <<address, is_server, sockaddr, sockfd, apiCalls>>

\* listen(sockfd, BACKLOG), then socket_create returns
x_listen ==
    /\ AtLib("listen")
    /\ LibCall("listen", "sockfd", BACKLOG, "idle")
    /\ UNCHANGED <<address, is_server, sockaddr, sockfd, apiCalls>>

\* socket_connect(void): connect(sockfd, &sockaddr, ...)
socket_connect ==
    /\ AtLib("idle")
    /\ apiCalls < MaxApiCalls
    /\ apiCalls' = apiCalls + 1
    /\ LibCall("connect", sockaddr, 0, "idle")
    /\ UNCHANGED <<address, is_server, sockaddr, sockfd>>

\* socket_accept(void): return accept(sockfd, NULL, 0), whatever it is
socket_accept ==
    /\ AtLib("idle")
    /\ apiCalls < MaxApiCalls
    /\ apiCalls' = apiCalls + 1
    /\ \E ok \in BOOLEAN :
          sockLog' = Append(sockLog, [call |-> "accept", arg |-> "sockfd", n |-> 0,
                                      ret |-> IF ok THEN 0 ELSE -1])
    /\ UNCHANGED <<xpc, exitStatus, address, is_server, sockaddr, sockfd>>

socket_create == x_socket_create \/ x_socket \/ x_reuseaddr \/ x_reuseport \/ x_bind \/ x_listen

\* a process that uses socket.c and has called none of it yet
SockInit ==
    /\ role = "sock"
    /\ exitStatus = -1
    /\ NetInit
    /\ MainCalled
    /\ TestIdle
    /\ ServerInit
    /\ hsplit = 0
    /\ ClientInit("idle", <<0, 0, <<>> >>)
    /\ csk = NoSocket /\ tys = "none" /\ kTxId = 0 /\ tx_dmabuf_id = 0
    /\ buffer_size = 0

\* do_server from its first line to the accept (lines 427-513)
ServerSetupNext ==
    \/ s_parse_address \/ s_reset_flow_steering \/ s_configure_headersplit
    \/ s_configure_rss \/ s_configure_flow_steering \/ s_sleep \/ s_bind_rx_queue
    \/ s_malloc \/ s_socket \/ s_enable_reuseaddr \/ s_bind \/ s_listen \/ s_accept

ListenInit == (Init /\ role = "server") \/ SockInit

ListenNext == ServerSetupNext \/ socket_create \/ socket_connect \/ socket_accept

SpecListen == ListenInit /\ [][ListenNext]_vars

\* the states do_server's listening socket goes through, in order
ListenSocketOrder ==
    {<<"none", "created">>, <<"created", "reuse">>, <<"reuse", "bound">>,
     <<"bound", "listening">>, <<"listening", "closed">>}

\* the positions of do_server at which it makes a socket call it checks
SocketCallSites == {"socket", "reuseaddr", "sockbind", "listen"}

\* the index of the latest socket_create in sockLog (0: none)
LastCreate ==
    IF \E i \in 1 .. Len(sockLog) : sockLog[i].call = "socket_create"
    THEN CHOOSE i \in 1 .. Len(sockLog) :
            /\ sockLog[i].call = "socket_create"
            /\ \A j \in (i + 1) .. Len(sockLog) : sockLog[j].call # "socket_create"
    ELSE 0

\* the system calls made on behalf of the latest socket_create
CreateCalls ==
    LET after == SubSeq(sockLog, LastCreate + 1, Len(sockLog))
        made == SelectSeq(after, LAMBDA e : e.call \notin {"connect", "accept"})
    IN  [i \in 1 .. Len(made) |-> <<made[i].call, made[i].arg>>]

\* what socket_create is to call, in order
ExpectedCreateCalls ==
    IF is_server
    THEN << <<"socket", "AF_INET">>, <<"setsockopt", "SO_REUSEADDR">>,
            <<"setsockopt", "SO_REUSEPORT">>, <<"bind", address>>,
            <<"listen", "sockfd">> >>
    ELSE << <<"socket", "AF_INET">> >>

\* socket_create has returned to its caller
CreateReturned == LastCreate > 0 /\ xpc = "idle"

SocketCreateOrder ==
    (role = "sock" /\ LastCreate > 0) =>
        /\ Len(CreateCalls) <= Len(ExpectedCreateCalls)
        /\ CreateCalls = SubSeq(ExpectedCreateCalls, 1, Len(CreateCalls))
        /\ CreateReturned => CreateCalls = ExpectedCreateCalls

ConnectUsesStoredAddress ==
    \A i \in 1 .. Len(sockLog) :
        (sockLog[i].call = "connect" /\ LastCreate > 0 /\ i > LastCreate) =>
            sockLog[i].arg = sockLog[LastCreate].arg

LibFailureExits ==
    \A i \in 1 .. Len(sockLog) :
        (sockLog[i].ret = -1 /\ sockLog[i].call # "accept") =>
            /\ i = Len(sockLog)
            /\ xpc = "exit"
            /\ exitStatus = 1

ServerListenState ==
    role = "server" =>
        /\ socket_fd = "listening" => backlog = 1
        /\ client_fd # "none" => (socket_fd \in {"listening", "closed"} /\ spc # "accept")

ServerListenStep ==
    role = "server" =>
        /\ socket_fd' # socket_fd => <<socket_fd, socket_fd'>> \in ListenSocketOrder
        /\ client_fd = "none" /\ client_fd' # "none" => socket_fd = "listening"
        /\ (spc \in SocketCallSites /\ spc' # spc /\ socket_fd' = socket_fd) =>
              (spc' = "fatal" /\ exitStatus' = 1)

\* C26: do_server's listening socket gets address reuse before it is bound,
\* is bound before it listens, and listens with backlog 1 before the single
\* accept; socket_create with is_server true calls the reuse options, bind
\* and listen in that order and with is_server false none of them;
\* socket_connect connects to the address the preceding socket_create
\* stored; a failed socket, setsockopt, bind, listen or connect ends the
\* process instead of returning.
C26_ListenSetupOrder ==
    /\ [](ServerListenState /\ SocketCreateOrder /\ ConnectUsesStoredAddress
            /\ LibFailureExits)
    /\ [][ServerListenStep]_vars

\* C26 witness, do_server: the one connection was accepted on a socket that
\* went through reuse, bind and listen with backlog 1.
C26_ServerAccepted ==
    /\ role = "server" /\ spc = "recv"
    /\ socket_fd = "listening" /\ backlog = 1 /\ client_fd = "open"

\* C26 witness, socket.c: a server socket_create ran reuse, bind and listen,
\* a later socket_create with is_server false made the socket only, and
\* socket_connect then connected to the address that call stored.
C26_Witness ==
    /\ role = "sock" /\ xpc = "idle" /\ apiCalls = 3
    /\ ~is_server
    /\ \E i \in 1 .. Len(sockLog) : sockLog[i].call = "listen" /\ sockLog[i].ret = 0
    /\ sockLog[Len(sockLog)].call = "connect"
    /\ sockLog[Len(sockLog)].ret = 0
    /\ sockLog[Len(sockLog)].arg = address
    /\ sockLog[1].arg # address

====
